---- MODULE Spec2Model ----
(***************************************************************************)
(* Model of the multi-market rule-evaluation engine of the university      *)
(* matching backend: gpt/au_evaluation.py, gpt/uk_evaluation.py,           *)
(* gpt/sg_evaluation.py, gpt/recommend_schools.py and the dispatcher in    *)
(* routes/evals.py.                                                        *)
(*                                                                         *)
(* Conventions                                                             *)
(*  - Scores are integers in units of 1/10000 point (Scale); the stored    *)
(*    "score" of a result is in hundredths of a point, produced by Round2  *)
(*    (Python round(total, 2), round-half-even).                           *)
(*  - Rates (placement_rate, intlRate, acceptanceRate) are in percent.     *)
(*  - study_length_years is in tenths of a year.                           *)
(*  - None is the integer -1 for numeric fields (all real values are >= 0).*)
(*  - The questionnaire's Chinese enum strings are written as ASCII tokens;*)
(*    each token is introduced next to the source line that compares it.   *)
(***************************************************************************)
EXTENDS Integers, Sequences, FiniteSets, TLC

VARIABLES
    pc,              \* position of the running call
    engine,          \* which pipeline is running: "AU", "UK", "SG", "USA", "none"
    input_data,      \* the profile dictionary of the call
    docs,            \* the candidate pool (au_docs / uk_docs / sg_docs / db.universities)
    enable_fallback, \* the enable_fallback argument
    filtered,        \* local list `filtered` (filtered_schools in the USA pipeline)
    fallback_info,   \* [applied, steps]
    scored,          \* local list `scored` (the returned ranked list)
    country,         \* create_parent_evaluation: eval_data.input.target_country
    response         \* create_parent_evaluation: "none", "ok" or "error"

vars == <<pc, engine, input_data, docs, enable_fallback, filtered,
          fallback_info, scored, country, response>>

-----------------------------------------------------------------------------
(* Bounds of the model *)

MaxPool == 2

-----------------------------------------------------------------------------
(* Generic helpers *)

None == 0 - 1

Scale == 100 * 100

Pts(n) == n * Scale

Min(a, b) == IF a <= b THEN a ELSE b

Max(a, b) == IF a >= b THEN a ELSE b

Abs(a) == IF a < 0 THEN 0 - a ELSE a

\* round(total, 2): from 1/10000 points to hundredths, ties to even.
Round2(x) ==
    LET q == x \div 100
        r == x % 100
    IN  IF r > 50 THEN q + 1
        ELSE IF r < 50 THEN q
        ELSE IF q % 2 = 0 THEN q ELSE q + 1

\* x[:n]
Take(s, n) == IF Len(s) <= n THEN s ELSE SubSeq(s, 1, n)

Range(s) == {s[i] : i \in 1..Len(s)}

\* {str(school["_id"]) for school in schools}
Ids0(ds) == {ds[i].id : i \in 1..Len(ds)}

\* tuple comparison of Python sort keys (same length)
RECURSIVE LexLeq(_, _)
LexLeq(a, b) ==
    IF a = <<>> THEN TRUE
    ELSE IF Head(a) < Head(b) THEN TRUE
    ELSE IF Head(a) > Head(b) THEN FALSE
    ELSE LexLeq(Tail(a), Tail(b))

\* insert pair p = <<key, item>> after every pair whose key is <= p's key
RECURSIVE InsertStable(_, _)
InsertStable(s, p) ==
    IF s = <<>> THEN <<p>>
    ELSE IF LexLeq(Head(s)[1], p[1]) THEN <<Head(s)>> \o InsertStable(Tail(s), p)
    ELSE <<p>> \o s

\* list.sort / sorted on <<key, item>> pairs: ascending by key, stable
RECURSIVE SortPairs(_)
SortPairs(s) ==
    IF s = <<>> THEN <<>>
    ELSE InsertStable(SortPairs(SubSeq(s, 1, Len(s) - 1)), s[Len(s)])

Items(pairs) == [i \in 1..Len(pairs) |-> pairs[i][2]]

\* injective sequences over S of length <= n (documents have distinct _id)
RECURSIVE SeqsUpTo(_, _)
SeqsUpTo(S, n) ==
    IF n = 0 THEN {<<>>}
    ELSE LET shorter == SeqsUpTo(S, n - 1)
         IN  shorter \cup {Append(s, x) : s \in {t \in shorter : Len(t) = n - 1},
                                           x \in S}

Injective(s) == \A i, j \in 1..Len(s) : i # j => s[i].id # s[j].id

Pools(S) == {s \in SeqsUpTo(S, MaxPool) : Injective(s)}

-----------------------------------------------------------------------------
(* Text normalisation, modelled on the vocabulary the model draws from.     *)

\* str.strip().lower() on the vocabulary
LowerStrip(s) ==
    CASE s = "Computer Science" -> "computer science"
      [] s = " Law "            -> "law"
      [] s = "Sydney"           -> "sydney"
      [] s = "Melbourne"        -> "melbourne"
      [] s = "Perth"            -> "perth"
      [] s = "London"           -> "london"
      [] s = "Edinburgh"        -> "edinburgh"
      [] s = " "                -> ""
      [] OTHER                  -> s

\* _normalize_list on a list value: strip and lower every entry, drop the
\* entries that are empty after stripping
_normalize_list(value) ==
    LET kept == SelectSeq(value, LAMBDA s : LowerStrip(s) # "")
    IN  [i \in 1..Len(kept) |-> LowerStrip(kept[i])]

\* _normalize_city: strip, lower, then the alias table (悉尼 -> sydney, ...);
\* "xini" stands for the Chinese alias of Sydney
_normalize_city(city) ==
    LET c == LowerStrip(city)
    IN  CASE c = "xini" -> "sydney"
          [] OTHER      -> c

\* _normalize_strengths on one (lower-case) entry: the first synonym group one
\* of whose synonyms is a substring of the entry, else the entry itself.
\* "computer science" contains "cs"? no; "computer science" is itself a synonym
\* of group cs.  "software" -> cs.  "law" -> group law in AU, and itself in
\* UK/SG (no law group): the result is "law" either way.
NormalizeStrength(s) ==
    CASE s = "computer science" -> "cs"
      [] s = "software"         -> "cs"
      [] s = "finance"          -> "economics"
      [] OTHER                  -> s

_normalize_strengths(strengths) ==
    [i \in 1..Len(strengths) |-> NormalizeStrength(strengths[i])]

\* Python's `a in b` for strings, on the normalised vocabulary
IsSubstring(a, b) ==
    \/ a = b
    \/ a = ""
    \/ (a = "cs" /\ b = "economics")

\* variant of _score_interests in which an interest is hit only if every
\* strength matches it (sensitivity of the monotonicity property to any(...))
_score_interests_AllMatch(selected, strengths) ==
    IF Len(selected) = 0 THEN 0
    ELSE LET selected_norm == _normalize_strengths(selected)
             strengths_norm == _normalize_strengths(strengths)
             hit(s) == /\ Len(strengths_norm) > 0
                       /\ \A j \in 1..Len(strengths_norm) :
                             \/ IsSubstring(s, strengths_norm[j])
                             \/ IsSubstring(strengths_norm[j], s)
             hits == Cardinality({i \in 1..Len(selected_norm) : hit(selected_norm[i])})
         IN  Min(Pts(20), (Pts(20) * hits) \div Max(1, Len(selected_norm)))

\* hits / len(selected_norm) of _score_interests, out of 20 points
_score_interests(selected, strengths) ==
    IF Len(selected) = 0 THEN 0
    ELSE LET selected_norm == _normalize_strengths(selected)
             strengths_norm == _normalize_strengths(strengths)
             hit(s) == \E j \in 1..Len(strengths_norm) :
                          \/ IsSubstring(s, strengths_norm[j])
                          \/ IsSubstring(strengths_norm[j], s)
             hits == Cardinality({i \in 1..Len(selected_norm) : hit(selected_norm[i])})
         IN  Min(Pts(20), (Pts(20) * hits) \div Max(1, Len(selected_norm)))

\* int(d.get("tuition_usd", 0) or 0)
TuitionOf(d) == IF d.tuition_usd = None THEN 0 ELSE d.tuition_usd

\* int(d.get("rank", 9999) or 9999)
RankOf(d) == IF d.rank = None \/ d.rank = 0 THEN 9999 ELSE d.rank

\* int(d.get("tuition_usd", 999999) or 999999)
TuitionKey(d) == IF d.tuition_usd = None \/ d.tuition_usd = 0 THEN 999999 ELSE d.tuition_usd

\* sorted(all_x, key=lambda x: int(x.get("rank", 9999) or 9999))
SortedByRank(ds) == Items(SortPairs([i \in 1..Len(ds) |-> <<(<<RankOf(ds[i])>>), ds[i]>>]))

\* sorted(top, key=lambda x: int(x.get("tuition_usd", 999999) or 999999))
SortedByTuition(ds) == Items(SortPairs([i \in 1..Len(ds) |-> <<(<<TuitionKey(ds[i])>>), ds[i]>>]))

\* variant of SortKey without the tuition component (sensitivity of the
\* ordering property to the sort key)
SortKey_ScoreRank(x) == <<0 - x.score, x.rank>>

\* scored.sort(key=lambda x: (-x["score"], x["tuition_usd"], x["rank"]))
SortKey(x) == <<0 - x.score, x.tuition_usd, x.rank>>

SortScored(rs) == Items(SortPairs([i \in 1..Len(rs) |-> <<SortKey(rs[i]), rs[i]>>]))

\* reputation_vs_value -> rank_weight, in tenths
\* rep_first = 名气优先, value_first = 性价比优先, balanced = 均衡
RankWeight(reputation_vs_value) ==
    IF reputation_vs_value = "rep_first" THEN 12
    ELSE IF reputation_vs_value = "value_first" THEN 8
    ELSE 10

\* shared shape of _score_rank: full 10 inside the band, minus `step` points
\* per started 50 ranks outside, floored at 0, times the reputation weight
ScoreRankWith(step, rank, target_band, reputation_weight) ==
    IF rank = None THEN 0
    ELSE LET low == target_band[1]
             high == target_band[2]
             edge == IF rank < low THEN low ELSE high
             base_score == IF low <= rank /\ rank <= high THEN Pts(10)
                           ELSE Max(0, Pts(10) - Pts(step) * ((Abs(rank - edge) + 49) \div 50))
         IN  (base_score * reputation_weight) \div 10

\* variant of ScoreBudgetWith that still pays the full points up to 10% over
\* the budget (sensitivity of the threshold property to `tuition_usd <=
\* budget_usd`)
ScoreBudgetWith_Tolerant(full, tuition_usd, budget_usd) ==
    IF budget_usd <= 0 \/ tuition_usd = None THEN 0
    ELSE IF tuition_usd * 10 <= budget_usd * 11 THEN Pts(full)
    ELSE Max(0, (Pts(full) * (2 * budget_usd - tuition_usd)) \div budget_usd)

\* shared shape of _score_budget / _score_budget15
ScoreBudgetWith(full, tuition_usd, budget_usd) ==
    IF budget_usd <= 0 \/ tuition_usd = None THEN 0
    ELSE IF tuition_usd <= budget_usd THEN Pts(full)
    ELSE Max(0, (Pts(full) * (2 * budget_usd - tuition_usd)) \div budget_usd)

\* the initial value of fallback_info
NoFallback == [applied |-> FALSE, steps |-> <<>>]

InCountry(ds, c) == SelectSeq(ds, LAMBDA d : d.country = c)

-----------------------------------------------------------------------------
(* Australia: gpt/au_evaluation.py                                          *)
(* Tokens: must = 必须, bonus = 加分, not_important = 不重要, any = 不限,   *)
(* ready = 已达标, in_3_months = 3个月内可达, longer = 需更长,              *)
(* strong = 强烈偏好, consider = 可以考虑, very = 非常在意, normal = 一般,  *)
(* important = 重要, very_important = 很重要, shorter = 越短越好,           *)
(* standard = 可接受标准学制, asap = 越快越好, 1_2_years = 1–2年内,         *)
(* employment = 就业口碑, internship_tag = 带实习标签.                      *)

_rank_band_for_academic(band) ==
    IF band = "3.9+" THEN <<1, 60>>
    ELSE IF band = "3.8+" THEN <<1, 100>>
    ELSE IF band = "3.6+" THEN <<60, 200>>
    ELSE <<100, 300>>

AU_score_rank(rank, target_band, reputation_weight) ==
    ScoreRankWith(5, rank, target_band, reputation_weight)

AU_score_budget(tuition_usd, budget_usd) == ScoreBudgetWith(10, tuition_usd, budget_usd)

\* variant of _score_wil without the min(...) that caps the placement part
\* (sensitivity of the bound of the WIL dimension to lines 152 and 154)
_score_wil_Uncapped(wil_pref, wil, placement_rate, career_focus) ==
    LET rate == IF placement_rate = None THEN 0 ELSE placement_rate
        placement_weight ==
            IF career_focus = "employment" /\ rate > 0 THEN 12
            ELSE IF career_focus = "internship_tag" /\ wil THEN 13
            ELSE 10
    IN  IF wil_pref = "must"
        THEN (IF wil THEN Pts(7) + (rate * 3 * placement_weight * Scale) \div 1000 ELSE 0)
        ELSE IF wil_pref = "bonus"
        THEN (IF wil THEN Pts(5) + (rate * 2 * placement_weight * Scale) \div 1000 ELSE Pts(4))
        ELSE Pts(3)

\* placement_rate in percent; placement_weight in tenths
_score_wil(wil_pref, wil, placement_rate, career_focus) ==
    LET rate == IF placement_rate = None THEN 0 ELSE placement_rate
        placement_weight ==
            IF career_focus = "employment" /\ rate > 0 THEN 12
            ELSE IF career_focus = "internship_tag" /\ wil THEN 13
            ELSE 10
    IN  IF wil_pref = "must"
        THEN (IF wil THEN Pts(7) + Min(Pts(3), (rate * 3 * placement_weight * Scale) \div 1000) ELSE 0)
        ELSE IF wil_pref = "bonus"
        THEN (IF wil THEN Pts(5) + Min(Pts(2), (rate * 2 * placement_weight * Scale) \div 1000) ELSE Pts(4))
        ELSE Pts(3)

\* length_years in tenths of a year; standard = 3.5
_score_study_length(pref, length_years) ==
    IF length_years = None THEN Pts(3)
    ELSE IF pref = "shorter"
         THEN (IF length_years <= 35 THEN Pts(5)
               ELSE Max(Pts(2), Pts(5) - ((length_years - 35) * 2 * Scale) \div 10))
    ELSE IF pref = "standard"
         THEN (IF Abs(length_years - 35) <= 5 THEN Pts(5) ELSE Pts(3))
    ELSE Pts(3)

\* "feb"/"2月"/"february" or "jul"/"7月"/"july" in str(intakes).lower()
HasRecentIntake(intakes) == intakes \in {"Feb, Jul", "February", "Jul"}

_score_intakes(pref, intakes) ==
    IF intakes = "" THEN Pts(3)
    ELSE IF pref = "asap" THEN (IF HasRecentIntake(intakes) THEN Pts(5) ELSE Pts(3))
    ELSE IF pref = "1_2_years" THEN (IF HasRecentIntake(intakes) THEN Pts(4) ELSE Pts(3))
    ELSE Pts(3)

_score_go8(pref, go8) ==
    IF pref = "strong" THEN (IF go8 THEN Pts(8) ELSE Pts(3))
    ELSE IF pref = "consider" THEN (IF go8 THEN Pts(6) ELSE Pts(5))
    ELSE Pts(5)

\* 7.0 * (6.0 / 10.0) = 4.2, 5.0 * (6.0 / 10.0) = 3.0
_score_city(pref_cities, city) ==
    LET city_norm == _normalize_city(city)
        pref_norm == [i \in 1..Len(pref_cities) |-> _normalize_city(pref_cities[i])]
    IN  IF Len(pref_cities) = 0 \/ "any" \in Range(pref_cities) THEN (Pts(7) * 6) \div 10
        ELSE IF city_norm \in Range(pref_norm) THEN Pts(6)
        ELSE (Pts(5) * 6) \div 10

\* psw_years in whole years, clamped to [2, 4]
_score_psw(importance, psw_years) ==
    LET y == IF psw_years = None THEN 2 ELSE psw_years
        psw == Max(2, Min(4, y))
    IN  IF importance = "very" THEN (Pts(8) * (psw - 2)) \div 2
        ELSE IF importance = "normal" THEN (Pts(6) * 8) \div 10
        ELSE (Pts(4) * 8) \div 10

_score_english(readiness, requires_english_test, accept_language_course) ==
    IF ~requires_english_test THEN (Pts(4) * 6) \div 5
    ELSE IF readiness = "ready" THEN Pts(6)
    ELSE IF readiness = "in_3_months" THEN (Pts(3) * 6) \div 5
    ELSE IF accept_language_course THEN (Pts(1) * 6) \div 5
    ELSE 0

\* intl_rate in percent, clamped to [10, 60]
AU_score_intl_community(pref, intl_rate) ==
    LET rate == IF intl_rate = None THEN 0 ELSE intl_rate
        clamped == Max(10, Min(60, rate))
    IN  IF pref = "important" THEN (Pts(6) * (clamped - 10)) \div 50
        ELSE IF pref = "normal" THEN (Pts(3) * 6) \div 5
        ELSE (Pts(2) * 6) \div 5

AU_score_scholarship(pref, has_scholarship) ==
    IF pref = "very_important" THEN (IF has_scholarship THEN Pts(6) ELSE (Pts(3) * 6) \div 10)
    ELSE IF pref = "normal" THEN (IF has_scholarship THEN (Pts(7) * 6) \div 10 ELSE (Pts(5) * 6) \div 10)
    ELSE (Pts(5) * 6) \div 10

\* lines 277-284: the hard-filter parameters read from input_data
AU_pref_cities(p) == _normalize_list(p.city_preferences)

AU_has_city_limit(p) ==
    /\ Len(AU_pref_cities(p)) > 0
    /\ "any" \notin Range(AU_pref_cities(p))

AU_must_wil(p) == p.wil_preference = "must"

\* int(budget_usd * 1.1)
AU_budget_expanded(p) == (p.budget_usd * 11) \div 10

\* the four `continue` tests of the initial hard-filter loop (lines 294-313),
\* by the class of constraint each one enforces: TRUE iff d is not skipped
AU_Classes == {"budget", "wil", "city", "english"}

AU_ClassPass(c, p, d) ==
    CASE c = "budget" -> ~(p.hard_budget_must_within /\ TuitionOf(d) > p.budget_usd)
      [] c = "wil" -> ~(AU_must_wil(p) /\ ~d.work_integrated_learning)
      [] c = "city" -> ~(AU_has_city_limit(p) /\
                         _normalize_city(d.city) \notin
                            {_normalize_city(x) : x \in Range(AU_pref_cities(p))})
      [] c = "english" -> ~(p.hard_english_required_exclude /\ d.requires_english_test /\
                            p.english_readiness = "longer")

\* one iteration of the initial hard-filter loop: TRUE iff d is appended
AU_HardPass(p, d) ==
    /\ d.country = "Australia"
    /\ \A c \in AU_Classes : AU_ClassPass(c, p, d)

\* the total of the twelve dimensions for one candidate, in 1/10000 points
AU_Total(p, d) ==
    LET strengths == _normalize_list(d.strengths)
        interests == _normalize_list(p.interests)
    IN    AU_score_rank(RankOf(d), _rank_band_for_academic(p.academic_band),
                        RankWeight(p.reputation_vs_value))
        + _score_interests(interests, strengths)
        + AU_score_budget(TuitionOf(d), p.budget_usd)
        + _score_wil(p.wil_preference, d.work_integrated_learning, d.placement_rate, p.career_focus)
        + _score_go8(p.go8_preference, d.group_of_eight)
        + _score_city(AU_pref_cities(p), d.city)
        + _score_psw(p.psw_importance, d.post_study_visa_years)
        + _score_english(p.english_readiness, d.requires_english_test, p.accept_language_course)
        + AU_score_intl_community(p.intl_community_importance, d.intlRate)
        + AU_score_scholarship(p.scholarship_importance, d.scholarship_available)
        + _score_study_length(p.study_length_preference, d.study_length_years)
        + _score_intakes(p.intake_preference, d.intakes)

\* the dictionary appended to `scored` (the fields the model reads)
Result(d, total) ==
    [id |-> d.id, score |-> Round2(total), rank |-> RankOf(d), tuition_usd |-> TuitionOf(d)]

AU_Scored(p, ds) == SortScored([i \in 1..Len(ds) |-> Result(ds[i], AU_Total(p, ds[i]))])

\* Step labels: relax_city = 放宽城市限制, relax_budget_10 = 放宽预算至 +10%,
\* relax_english = 放宽英语要求（保留需语言班学校）,
\* relax_wil = 放宽WIL要求（从'必须'改为'优先'）,
\* pool = 启用兜底池（...）, final = 最终兜底：返回所有可用...学校（按排名）
AU_TopRank == 200

AU_PoolSize == 10

AU_FinalSize == 10

AU_All(ds) == InCountry(ds, "Australia")

\* variant of AU_FallbackGuard with the flag inverted (sensitivity of the
\* last-resort property to the guard of line 318)
AU_FallbackGuard_Inverted(f, ef) == Len(f) = 0 /\ ~ef

\* line 318
AU_FallbackGuard(f, ef) == Len(f) = 0 /\ ef

\* line 322
AU_Step1Guard(p, f) == AU_has_city_limit(p)

\* variant of AU_Step2Guard without `not filtered` (sensitivity of the
\* ladder-order property to the guard of line 330)
AU_Step2Guard_Resumed(p, f) == p.hard_budget_must_within

\* line 330
AU_Step2Guard(p, f) == p.hard_budget_must_within /\ Len(f) = 0

\* line 340
AU_Step3Guard(p, f) == p.hard_english_required_exclude /\ Len(f) = 0

\* line 350
AU_Step4Guard(p, f) == AU_must_wil(p) /\ Len(f) = 0

\* lines 324, 352-355
AU_Step1Set(p, ds) == AU_All(ds)

\* lines 332-337
AU_Step2Set(p, ds) == SelectSeq(AU_All(ds), LAMBDA d : TuitionOf(d) <= AU_budget_expanded(p))

\* lines 342-347
AU_Step3Set(p, ds) ==
    IF p.hard_budget_must_within
    THEN SelectSeq(AU_All(ds), LAMBDA d : TuitionOf(d) <= AU_budget_expanded(p))
    ELSE AU_All(ds)

\* lines 352-355
AU_Step4Set(p, ds) == AU_All(ds)

\* lines 360-368
AU_PoolSet(ds) ==
    LET all_au == AU_All(ds)
    IN  IF Len(all_au) > 0
        THEN Take(SortedByTuition(Take(SortedByRank(all_au), AU_TopRank)), AU_PoolSize)
        ELSE <<>>

\* lines 375-376
AU_FinalSet(ds) == Take(SortedByRank(AU_All(ds)), AU_FinalSize)

-----------------------------------------------------------------------------
(* United Kingdom: gpt/uk_evaluation.py                                     *)
(* Tokens: oxbridge_med = Oxbridge/医学类, regular = 常规路线,              *)
(* asap_uk = 尽快（下6–12个月）, high = 高, medium = 中, strong = 强,       *)
(* region = 地区不喜欢 (main_concern), unsure = 不确定.                     *)

\* _rank_band of uk_evaluation.py and of sg_evaluation.py (the same table)
_rank_band(academic_band) ==
    IF academic_band = "3.9+" THEN <<1, 50>>
    ELSE IF academic_band = "3.8+" THEN <<1, 100>>
    ELSE IF academic_band = "3.6+" THEN <<50, 200>>
    ELSE <<100, 300>>

\* _score_rank of uk_evaluation.py and of sg_evaluation.py (3 points per step)
UK_score_rank(rank, target_band, reputation_weight) ==
    ScoreRankWith(3, rank, target_band, reputation_weight)

UK_score_budget(tuition_usd, budget_usd) == ScoreBudgetWith(10, tuition_usd, budget_usd)

_normalize_region(region) == LowerStrip(region)

\* t = str(ucas_deadline_type or ""); "" stands for a missing value
_score_ucas(route, ucas_deadline_type, intake_pref) ==
    LET t == ucas_deadline_type
        oxb == t = "Oxbridge/Med(10/15)"
        main == t = "Main(1/31)"
        base_score == IF route = "oxbridge_med" THEN (IF oxb THEN Pts(10) ELSE 0)
                      ELSE IF route = "regular" THEN (IF main THEN Pts(10) ELSE Pts(5))
                      ELSE Pts(6)
        intake_bonus == IF intake_pref = "asap_uk" /\ (main \/ oxb) THEN Pts(2)
                        ELSE IF intake_pref = "1_2_years" /\ t # "" THEN Pts(1)
                        ELSE 0
    IN  Min(Pts(10), base_score + intake_bonus)

_score_placement(pref, available) ==
    IF pref = "must" THEN (IF available THEN Pts(10) ELSE 0)
    ELSE IF pref = "bonus" THEN (IF available THEN Pts(7) ELSE Pts(4))
    ELSE Pts(5)

_score_russell(pref, russell) ==
    IF pref = "strong" THEN (IF russell THEN Pts(10) ELSE Pts(4))
    ELSE IF pref = "medium" THEN (IF russell THEN Pts(8) ELSE Pts(6))
    ELSE Pts(5)

\* coef in tenths; ps_norm = (weight - 1) / 9 * 6
_score_ps_readiness(level, ps_weight) ==
    LET w == IF ps_weight = None \/ ps_weight = 0 THEN 1 ELSE ps_weight
        weight == Max(1, Min(10, w))
        coef == IF level = "high" THEN 10 ELSE IF level = "medium" THEN 6 ELSE 3
    IN  Min(Pts(10), ((weight - 1) * 6 * coef * Scale) \div 90 + Pts(4))

\* needs = bool(admissions_tests); "" stands for a missing value
_score_tests(level, admissions_tests) ==
    IF admissions_tests # ""
    THEN (IF level = "high" THEN Pts(5) ELSE IF level = "medium" THEN Pts(3) ELSE 0)
    ELSE Pts(3)

\* the region test shared by the hard filter (lines 261-268) and _score_region
RegionMatches(region_pref, city) ==
    LET region_norm == _normalize_region(region_pref)
        city_norm == LowerStrip(city)
    IN  IF region_norm = "london" THEN city_norm = "london"
        ELSE IsSubstring(region_norm, city_norm) \/ IsSubstring(city_norm, region_norm)

_score_region(region_pref, city) ==
    IF region_pref = "any" THEN Pts(7)
    ELSE IF RegionMatches(region_pref, city) THEN (Pts(10) * 7) \div 10
    ELSE (Pts(5) * 7) \div 10

\* intl_rate in percent, clamped to [10, 35]
UK_score_intl_community(pref, intl_rate) ==
    LET rate == IF intl_rate = None THEN 0 ELSE intl_rate
        clamped == Max(10, Min(35, rate))
    IN  IF pref = "important" THEN (Pts(5) * (clamped - 10)) \div 25
        ELSE IF pref = "normal" THEN Pts(3)
        ELSE Pts(2)

\* tolerance_pct in percent: "10%" in budget_tolerance -> 10, "20%" -> 20, else 0
TolerancePct(budget_tolerance) ==
    IF budget_tolerance = "10%" THEN 10
    ELSE IF budget_tolerance = "20%" THEN 20
    ELSE 0

\* effective_tolerance = tolerance_pct if tolerance_pct > 0 else 0.1, in percent
EffectiveTolerance(p) ==
    IF TolerancePct(p.budget_tolerance) > 0 THEN TolerancePct(p.budget_tolerance) ELSE 10

\* int(budget_usd * (1 + effective_tolerance))
BudgetExpanded(p) == (p.budget_usd * (100 + EffectiveTolerance(p))) \div 100

\* f"放宽预算至 +{int(effective_tolerance * 100)}%"
BudgetLabel(p) == IF EffectiveTolerance(p) = 20 THEN "relax_budget_20" ELSE "relax_budget_10"

UK_has_region_limit(p) == p.region_pref # "any"

UK_All(ds) == InCountry(ds, "United Kingdom")

\* the five `continue` tests of the initial hard-filter loop (lines 243-268),
\* by the class of constraint each one enforces: TRUE iff d is not skipped
UK_Classes == {"budget", "oxbridge", "foundation", "placement", "region"}

UK_ClassPass(c, p, d) ==
    CASE c = "budget" -> ~(p.hard_budget_must_within /\ TuitionOf(d) > p.budget_usd)
      [] c = "oxbridge" -> ~(p.oxbridge_must_cover /\
                             d.ucas_deadline_type # "Oxbridge/Med(10/15)")
      [] c = "foundation" -> ~(p.foundation_need = "must" /\ ~d.foundation_available)
      [] c = "placement" -> ~(p.placement_year_pref = "must" /\ ~d.placement_year_available)
      [] c = "region" -> ~(UK_has_region_limit(p) /\ ~RegionMatches(p.region_pref, d.city))

\* one iteration of the initial hard-filter loop (lines 239-270)
UK_HardPass(p, d) ==
    /\ d.country = "United Kingdom"
    /\ \A c \in UK_Classes : UK_ClassPass(c, p, d)

UK_TopRank == 250

UK_PoolSize == 10

UK_FinalSize == 10

\* variant of UK_FallbackGuard without the emptiness test (sensitivity of the
\* no-fallback property to the guard of line 273)
UK_FallbackGuard_Always(f, ef) == ef

\* line 273
UK_FallbackGuard(f, ef) == Len(f) = 0 /\ ef

\* line 277
UK_Step1Guard(p, f) == UK_has_region_limit(p) /\ p.main_concern # "region"

\* line 285
UK_Step2Guard(p, f) == p.hard_budget_must_within /\ Len(f) = 0

\* line 296
UK_Step3Guard(p, f) == p.placement_year_pref = "must" /\ Len(f) = 0

\* line 308
UK_Step4Guard(p, f) == p.oxbridge_must_cover /\ Len(f) = 0

\* line 316
UK_Step5Guard(p, f) == p.foundation_need = "must" /\ Len(f) = 0

\* line 279
UK_Step1Set(p, ds) == UK_All(ds)

\* lines 288-293
UK_Step2Set(p, ds) == SelectSeq(UK_All(ds), LAMBDA d : TuitionOf(d) <= BudgetExpanded(p))

\* lines 298-305
UK_Step3Set(p, ds) ==
    IF p.hard_budget_must_within
    THEN SelectSeq(UK_All(ds), LAMBDA d : TuitionOf(d) <= BudgetExpanded(p))
    ELSE UK_All(ds)

\* lines 310-313
UK_Step4Set(p, ds) == UK_All(ds)

\* lines 318-321
UK_Step5Set(p, ds) == UK_All(ds)

\* lines 326-333; `cur` is the value of filtered when the rung is reached
UK_PoolSet(ds, cur) ==
    LET all_uk == UK_All(ds)
        sorted_by_rank == SortedByRank(all_uk)
        in250 == SelectSeq(sorted_by_rank, LAMBDA d : RankOf(d) <= UK_TopRank)
        top250 == IF Len(in250) = 0 THEN Take(sorted_by_rank, UK_TopRank) ELSE in250
    IN  IF Len(all_uk) > 0 THEN Take(SortedByTuition(top250), UK_PoolSize) ELSE cur

\* lines 340-341
UK_FinalSet(ds) == Take(SortedByRank(UK_All(ds)), UK_FinalSize)

UK_Total(p, d) ==
    LET strengths == _normalize_list(d.strengths)
        interests == _normalize_list(p.interests)
    IN    UK_score_rank(RankOf(d), _rank_band(p.academic_band), RankWeight(p.reputation_vs_value))
        + _score_interests(interests, strengths)
        + UK_score_budget(TuitionOf(d), p.budget_usd)
        + _score_ucas(p.ucas_route, d.ucas_deadline_type, p.intake_preference)
        + _score_placement(p.placement_year_pref, d.placement_year_available)
        + _score_russell(p.russell_pref, d.russell_group)
        + _score_ps_readiness(p.prep_level, d.personal_statement_weight)
        + _score_tests(p.prep_level, d.admissions_tests)
        + _score_region(p.region_pref, d.city)
        + UK_score_intl_community(p.intl_env_importance, d.intlRate)

UK_Scored(p, ds) == SortScored([i \in 1..Len(ds) |-> Result(ds[i], UK_Total(p, ds[i]))])

-----------------------------------------------------------------------------
(* Singapore: gpt/sg_evaluation.py                                          *)
(* Tokens: industry = 产业, research = 研究, willing = 愿意, accept = 接受, *)
(* avoid = 希望避免, unwilling = 不愿意, indifferent = 无所谓,              *)
(* over_budget = 超预算, interview = 需要面试, tg_bond = TG服务期.          *)

SG_score_rank(rank, target_band, reputation_weight) ==
    ScoreRankWith(3, rank, target_band, reputation_weight)

_score_budget15(tuition_usd, budget_usd) == ScoreBudgetWith(15, tuition_usd, budget_usd)

_score_orientation(orientation, industry_links_score, coop_required) ==
    LET raw == IF industry_links_score = None THEN 0 ELSE industry_links_score
        score == Max(1, Min(10, raw))
    IN  IF orientation = "industry"
        THEN Min(Pts(15), ((score - 1) * Pts(15)) \div 9 + (IF coop_required THEN Pts(5) ELSE 0))
        ELSE IF orientation = "research"
        THEN (IF score >= 8 THEN Pts(12) ELSE Pts(10))
        ELSE Min(Pts(15), ((score - 1) * Pts(12)) \div 9 + (IF coop_required THEN Pts(3) ELSE 0))

\* bond_years in (0, None, 0.0)
NoBond(bond_years) == bond_years = 0 \/ bond_years = None

_score_tg_bond(tg_pref, tg_available, bond_years) ==
    IF tg_pref = "willing" \/ tg_pref = "accept" THEN (IF tg_available THEN Pts(5) ELSE Pts(3))
    ELSE IF tg_pref = "avoid" \/ tg_pref = "unwilling" THEN (IF NoBond(bond_years) THEN Pts(5) ELSE 0)
    ELSE Pts(3)

_score_interview_portfolio(readiness, need_interview, need_portfolio) ==
    IF need_interview \/ need_portfolio
    THEN (IF readiness = "willing" THEN Pts(10) ELSE IF readiness = "normal" THEN Pts(6) ELSE 0)
    ELSE Pts(7)

\* a tag that contains "double degree", "dsa", "interdisciplinary", "dual" or "joint"
IsDoubleDegreeTag(tag) == tag \in {"double degree", "joint programme"}

_score_double_degree(need, tags) ==
    IF ~need THEN Pts(5)
    ELSE IF \E i \in 1..Len(tags) : IsDoubleDegreeTag(tags[i]) THEN Pts(5)
    ELSE Pts(3)

_score_exchange(need, exchange_score) ==
    IF ~need THEN Pts(2)
    ELSE LET raw == IF exchange_score = None THEN 0 ELSE exchange_score
             score == Max(0, Min(10, raw))
         IN  (score * Pts(5)) \div 10

_score_safety(pref, safety_score) ==
    LET raw == IF safety_score = None THEN 3 ELSE safety_score
        sc == Max(0, Min(10, raw))
    IN  IF pref = "important" THEN (sc * Pts(5)) \div 10
        ELSE IF pref = "normal" THEN Pts(3)
        ELSE Pts(2)

SG_score_scholarship(pref, has_scholarship) ==
    IF pref = "important" THEN (IF has_scholarship THEN Pts(10) ELSE Pts(3))
    ELSE IF pref = "normal" THEN (IF has_scholarship THEN Pts(7) ELSE Pts(5))
    ELSE Pts(5)

SG_All(ds) == InCountry(ds, "Singapore")

NeedsInterview(d) == d.interview_required \/ d.essay_or_portfolio_required

\* the four `continue` tests of the initial hard-filter loop (lines 219-234),
\* by the class of constraint each one enforces: TRUE iff d is not skipped
SG_Classes == {"budget", "tg", "bond", "interview"}

SG_ClassPass(c, p, d) ==
    CASE c = "budget" -> ~(p.hard_budget_must_within /\ TuitionOf(d) > p.budget_usd)
      [] c = "tg" -> ~(p.tg_must /\ ~d.tuition_grant_available)
      [] c = "bond" -> ~(p.hard_refuse_bond /\ ~NoBond(d.tuition_grant_bond_years))
      [] c = "interview" -> ~(p.hard_refuse_interview_or_portfolio /\ NeedsInterview(d))

\* one iteration of the initial hard-filter loop (lines 216-236)
SG_HardPass(p, d) ==
    /\ d.country = "Singapore"
    /\ \A c \in SG_Classes : SG_ClassPass(c, p, d)

SG_TopRank == 300

SG_PoolSize == 8

SG_FinalSize == 10

\* line 239
SG_FallbackGuard(f, ef) == Len(f) = 0 /\ ef

\* line 243
SG_Step1Guard(p, f) == p.hard_budget_must_within /\ p.main_concern # "over_budget"

\* line 260
SG_Step2Guard(p, f) ==
    p.hard_refuse_interview_or_portfolio /\ Len(f) = 0 /\ p.main_concern # "interview"

\* line 276
SG_Step3Guard(p, f) == p.hard_refuse_bond /\ Len(f) = 0 /\ p.main_concern # "tg_bond"

\* lines 290-292
SG_Step4Guard(p, f) == p.tg_must /\ Len(f) = 0 /\ p.bond_acceptance # "unwilling"

\* the re-applied filters of the rungs: `if hard_budget:`, `if tg_must:`,
\* `if refuse_bond:`, `if refuse_interview:`
SG_Keep(p, ds, budget, tg, bond, interview) ==
    SelectSeq(SG_All(ds), LAMBDA d :
        /\ (budget => TuitionOf(d) <= BudgetExpanded(p))
        /\ (tg /\ p.tg_must => d.tuition_grant_available)
        /\ (bond /\ p.hard_refuse_bond => NoBond(d.tuition_grant_bond_years))
        /\ (interview /\ p.hard_refuse_interview_or_portfolio => ~NeedsInterview(d)))

\* lines 246-257
SG_Step1Set(p, ds) == SG_Keep(p, ds, TRUE, TRUE, TRUE, TRUE)

\* lines 262-273
SG_Step2Set(p, ds) == SG_Keep(p, ds, p.hard_budget_must_within, TRUE, TRUE, FALSE)

\* lines 278-287
SG_Step3Set(p, ds) == SG_Keep(p, ds, p.hard_budget_must_within, TRUE, FALSE, FALSE)

\* lines 294-301
SG_Step4Set(p, ds) == SG_Keep(p, ds, p.hard_budget_must_within, FALSE, FALSE, FALSE)

\* lines 306-309
SG_Step5Set(p, ds) == SG_All(ds)

\* lines 314-321; `cur` is the value of filtered when the rung is reached
SG_PoolSet(ds, cur) ==
    LET all_sg == SG_All(ds)
        sorted_by_rank == SortedByRank(all_sg)
        in300 == SelectSeq(sorted_by_rank, LAMBDA d : RankOf(d) <= SG_TopRank)
        top300 == IF Len(in300) = 0 THEN Take(sorted_by_rank, Min(SG_TopRank, Len(sorted_by_rank)))
                  ELSE in300
    IN  IF Len(all_sg) > 0 THEN Take(SortedByTuition(top300), SG_PoolSize) ELSE cur

\* lines 328-329
SG_FinalSet(ds) == Take(SortedByRank(SG_All(ds)), SG_FinalSize)

SG_Total(p, d) ==
    LET strengths == _normalize_list(d.strengths)
        tags == _normalize_list(d.tags)
        interests == _normalize_list(p.interests)
    IN    SG_score_rank(RankOf(d), _rank_band(p.academic_band), RankWeight(p.reputation_vs_value))
        + _score_interests(interests, strengths)
        + _score_budget15(TuitionOf(d), p.budget_usd)
        + _score_orientation(p.orientation, d.industry_links_score, d.coop_or_internship_required)
        + _score_tg_bond(p.bond_acceptance, d.tuition_grant_available, d.tuition_grant_bond_years)
        + _score_interview_portfolio(p.interview_portfolio, d.interview_required,
                                     d.essay_or_portfolio_required)
        + _score_double_degree(p.want_double_degree, tags)
        + _score_exchange(p.want_exchange, d.exchange_opportunities_score)
        + _score_safety(p.safety_importance, d.safety_score)
        + SG_score_scholarship(p.scholarship_importance, d.scholarship_available)

SG_Scored(p, ds) == SortScored([i \in 1..Len(ds) |-> Result(ds[i], SG_Total(p, ds[i]))])

-----------------------------------------------------------------------------
(* The inputs the model draws from *)

AUDocs == {
    [id |-> "a1", country |-> "Australia", rank |-> 50, tuition_usd |-> 100,
     work_integrated_learning |-> TRUE, placement_rate |-> 100, group_of_eight |-> TRUE,
     city |-> "Sydney", post_study_visa_years |-> 4, requires_english_test |-> TRUE,
     intlRate |-> 60, scholarship_available |-> TRUE, study_length_years |-> 30,
     intakes |-> "Feb, Jul", strengths |-> <<"Computer Science">>],
    [id |-> "a2", country |-> "Australia", rank |-> 60, tuition_usd |-> 90,
     work_integrated_learning |-> TRUE, placement_rate |-> 100, group_of_eight |-> TRUE,
     city |-> "Sydney", post_study_visa_years |-> 4, requires_english_test |-> TRUE,
     intlRate |-> 60, scholarship_available |-> TRUE, study_length_years |-> 30,
     intakes |-> "Feb, Jul", strengths |-> <<"Computer Science">>],
    [id |-> "a3", country |-> "Australia", rank |-> 150, tuition_usd |-> 105,
     work_integrated_learning |-> FALSE, placement_rate |-> None, group_of_eight |-> FALSE,
     city |-> "Melbourne", post_study_visa_years |-> None, requires_english_test |-> TRUE,
     intlRate |-> None, scholarship_available |-> FALSE, study_length_years |-> None,
     intakes |-> "", strengths |-> <<" Law ", " ">>],
    [id |-> "a4", country |-> "Australia", rank |-> None, tuition_usd |-> 200,
     work_integrated_learning |-> TRUE, placement_rate |-> 50, group_of_eight |-> FALSE,
     city |-> "Perth", post_study_visa_years |-> 3, requires_english_test |-> FALSE,
     intlRate |-> 35, scholarship_available |-> TRUE, study_length_years |-> 40,
     intakes |-> "Mar", strengths |-> <<>>],
    \* a second unranked document with the field values of a4 (nothing in the
    \* collection makes rank, tuition or any scored field unique)
    [id |-> "a5", country |-> "Australia", rank |-> None, tuition_usd |-> 200,
     work_integrated_learning |-> TRUE, placement_rate |-> 50, group_of_eight |-> FALSE,
     city |-> "Perth", post_study_visa_years |-> 3, requires_english_test |-> FALSE,
     intlRate |-> 35, scholarship_available |-> TRUE, study_length_years |-> 40,
     intakes |-> "Mar", strengths |-> <<>>],
    [id |-> "x1", country |-> "New Zealand", rank |-> 10, tuition_usd |-> 50,
     work_integrated_learning |-> TRUE, placement_rate |-> 100, group_of_eight |-> FALSE,
     city |-> "Sydney", post_study_visa_years |-> 4, requires_english_test |-> FALSE,
     intlRate |-> 60, scholarship_available |-> TRUE, study_length_years |-> 30,
     intakes |-> "Feb, Jul", strengths |-> <<"Computer Science">>] }

\* the scoring answers of a questionnaire, three ways
AUPreset(k) ==
    CASE k = "strong" ->
           [budget_usd |-> 100, accept_language_course |-> TRUE, english_readiness |-> "ready",
            academic_band |-> "3.8+", interests |-> <<"Computer Science">>,
            reputation_vs_value |-> "rep_first", go8_preference |-> "strong",
            psw_importance |-> "very", intl_community_importance |-> "important",
            scholarship_importance |-> "very_important", study_length_preference |-> "shorter",
            intake_preference |-> "asap", career_focus |-> "employment"]
      [] k = "value" ->
           [budget_usd |-> 100, accept_language_course |-> FALSE, english_readiness |-> "longer",
            academic_band |-> "3.6+", interests |-> <<" Law ", "Computer Science">>,
            reputation_vs_value |-> "value_first", go8_preference |-> "consider",
            psw_importance |-> "normal", intl_community_importance |-> "normal",
            scholarship_importance |-> "normal", study_length_preference |-> "standard",
            intake_preference |-> "1_2_years", career_focus |-> "internship_tag"]
      [] OTHER ->
           [budget_usd |-> 0, accept_language_course |-> TRUE, english_readiness |-> "longer",
            academic_band |-> "3.6-", interests |-> <<>>,
            reputation_vs_value |-> "balanced", go8_preference |-> "none",
            psw_importance |-> "no", intl_community_importance |-> "no",
            scholarship_importance |-> "not_important", study_length_preference |-> "dont_care",
            intake_preference |-> "unsure", career_focus |-> "balanced"]

Presets == {"strong", "value", "neutral"}

\* record extension: the fields of a and of b
Merge(a, b) ==
    [k \in (DOMAIN a) \cup (DOMAIN b) |-> IF k \in DOMAIN a THEN a[k] ELSE b[k]]

AUProfiles ==
    {Merge([hard_budget_must_within |-> hb, wil_preference |-> wil,
            city_preferences |-> cities, hard_english_required_exclude |-> he],
           AUPreset(k)) :
        hb \in BOOLEAN, wil \in {"must", "not_important"},
        cities \in {<<>>, <<"Sydney">>}, he \in BOOLEAN, k \in Presets}

-----------------------------------------------------------------------------
(* The state machine *)

\* no response has been built
NoResponse ==
    [status |-> 0, recommended_school_ids |-> <<>>, explanations |-> <<>>,
     recommendedSchools |-> <<>>]

Init ==
    /\ pc = "idle"
    /\ engine = "none"
    /\ input_data = [none |-> TRUE]
    /\ docs = <<>>
    /\ enable_fallback = TRUE
    /\ filtered = <<>>
    /\ fallback_info = NoFallback
    /\ scored = <<>>
    /\ country = "none"
    /\ response = NoResponse

Record(label) == [fallback_info EXCEPT !.steps = Append(@, label)]

\* a call apply_au_filters_and_score(input_data, au_docs, enable_fallback)
CallAU ==
    /\ pc = "idle"
    /\ \E p \in AUProfiles, ds \in Pools(AUDocs), ef \in BOOLEAN :
          /\ input_data' = p
          /\ docs' = ds
          /\ enable_fallback' = ef
    /\ engine' = "AU"
    /\ filtered' = <<>>
    /\ fallback_info' = NoFallback
    /\ scored' = <<>>
    /\ pc' = "au_filter"
    /\ UNCHANGED <<country, response>>

\* lines 289-315
AU_HardFilter ==
    /\ pc = "au_filter"
    /\ filtered' = SelectSeq(docs, LAMBDA d : AU_HardPass(input_data, d))
    /\ pc' = "au_guard"
    /\ UNCHANGED <<engine, input_data, docs, enable_fallback, fallback_info, scored, country, response>>

\* lines 318-319
AU_EnterFallback ==
    /\ pc = "au_guard"
    /\ IF AU_FallbackGuard(filtered, enable_fallback)
       THEN /\ fallback_info' = [fallback_info EXCEPT !.applied = TRUE]
            /\ pc' = "au_step1"
       ELSE /\ fallback_info' = fallback_info
            /\ pc' = "au_score"
    /\ UNCHANGED <<engine, input_data, docs, enable_fallback, filtered, scored, country, response>>

\* one rung: if its guard holds, record the label and replace `filtered`
Rung(here, next, guard, label, newset) ==
    /\ pc = here
    /\ IF guard
       THEN /\ fallback_info' = Record(label)
            /\ filtered' = newset
       ELSE UNCHANGED <<fallback_info, filtered>>
    /\ pc' = next
    /\ UNCHANGED <<engine, input_data, docs, enable_fallback, scored, country, response>>

\* lines 321-327
AU_Step1 ==
    Rung("au_step1", "au_step2", AU_Step1Guard(input_data, filtered),
         "relax_city", AU_Step1Set(input_data, docs))

\* lines 329-337
AU_Step2 ==
    Rung("au_step2", "au_step3", AU_Step2Guard(input_data, filtered),
         "relax_budget_10", AU_Step2Set(input_data, docs))

\* lines 339-347
AU_Step3 ==
    Rung("au_step3", "au_step4", AU_Step3Guard(input_data, filtered),
         "relax_english", AU_Step3Set(input_data, docs))

\* lines 349-355
AU_Step4 ==
    Rung("au_step4", "au_step5", AU_Step4Guard(input_data, filtered),
         "relax_wil", AU_Step4Set(input_data, docs))

\* lines 357-368
AU_Step5 ==
    Rung("au_step5", "au_final", Len(filtered) = 0, "pool", AU_PoolSet(docs))

\* lines 370-376: inside the enable_fallback block
AU_Final ==
    Rung("au_final", "au_score", Len(filtered) = 0 /\ Len(AU_All(docs)) > 0,
         "final", AU_FinalSet(docs))

\* lines 378-441: score every candidate of `filtered`, sort, return
AU_Score ==
    /\ pc = "au_score"
    /\ scored' = AU_Scored(input_data, filtered)
    /\ pc' = "done"
    /\ UNCHANGED <<engine, input_data, docs, enable_fallback, filtered, fallback_info, country, response>>

-----------------------------------------------------------------------------
(* United Kingdom: inputs and steps *)

UKDocs == {
    [id |-> "u1", country |-> "United Kingdom", rank |-> 40, tuition_usd |-> 100,
     ucas_deadline_type |-> "Oxbridge/Med(10/15)", foundation_available |-> FALSE,
     placement_year_available |-> TRUE, russell_group |-> TRUE,
     personal_statement_weight |-> 10, admissions_tests |-> "STEP", city |-> "London",
     intlRate |-> 35, strengths |-> <<"Computer Science">>],
    [id |-> "u2", country |-> "United Kingdom", rank |-> 45, tuition_usd |-> 90,
     ucas_deadline_type |-> "Oxbridge/Med(10/15)", foundation_available |-> FALSE,
     placement_year_available |-> TRUE, russell_group |-> TRUE,
     personal_statement_weight |-> 10, admissions_tests |-> "STEP", city |-> "London",
     intlRate |-> 35, strengths |-> <<"Computer Science">>],
    [id |-> "u3", country |-> "United Kingdom", rank |-> 150, tuition_usd |-> 115,
     ucas_deadline_type |-> "Main(1/31)", foundation_available |-> TRUE,
     placement_year_available |-> FALSE, russell_group |-> FALSE,
     personal_statement_weight |-> None, admissions_tests |-> "", city |-> "Edinburgh",
     intlRate |-> None, strengths |-> <<" Law ", " ">>],
    [id |-> "u4", country |-> "United Kingdom", rank |-> None, tuition_usd |-> 200,
     ucas_deadline_type |-> "", foundation_available |-> FALSE,
     placement_year_available |-> FALSE, russell_group |-> FALSE,
     personal_statement_weight |-> 4, admissions_tests |-> "", city |-> "",
     intlRate |-> 20, strengths |-> <<>>],
    [id |-> "x2", country |-> "Ireland", rank |-> 10, tuition_usd |-> 50,
     ucas_deadline_type |-> "Oxbridge/Med(10/15)", foundation_available |-> TRUE,
     placement_year_available |-> TRUE, russell_group |-> FALSE,
     personal_statement_weight |-> 10, admissions_tests |-> "", city |-> "London",
     intlRate |-> 35, strengths |-> <<"Computer Science">>] }

UKPreset(k) ==
    CASE k = "strong" ->
           [budget_usd |-> 100, budget_tolerance |-> "20%", academic_band |-> "3.8+",
            interests |-> <<"Computer Science">>, reputation_vs_value |-> "rep_first",
            ucas_route |-> "oxbridge_med", russell_pref |-> "strong", prep_level |-> "high",
            intl_env_importance |-> "important", intake_preference |-> "asap_uk"]
      [] k = "value" ->
           [budget_usd |-> 100, budget_tolerance |-> "10%", academic_band |-> "3.6+",
            interests |-> <<" Law ", "Computer Science">>, reputation_vs_value |-> "value_first",
            ucas_route |-> "regular", russell_pref |-> "medium", prep_level |-> "medium",
            intl_env_importance |-> "normal", intake_preference |-> "1_2_years"]
      [] OTHER ->
           [budget_usd |-> 0, budget_tolerance |-> "0%", academic_band |-> "3.6-",
            interests |-> <<>>, reputation_vs_value |-> "balanced",
            ucas_route |-> "unsure", russell_pref |-> "weak", prep_level |-> "low",
            intl_env_importance |-> "no", intake_preference |-> "unsure"]

\* foundation_need: must = 必须, no = 不需要
UKProfiles ==
    {Merge([hard_budget_must_within |-> hb, oxbridge_must_cover |-> ox,
            foundation_need |-> fn, placement_year_pref |-> pl,
            region_pref |-> rg, main_concern |-> mc],
           UKPreset(k)) :
        hb \in BOOLEAN, ox \in BOOLEAN, fn \in {"must", "no"},
        pl \in {"must", "not_important"}, rg \in {"any", "London", "Scotland"},
        mc \in {"region", "unsure"}, k \in Presets}

\* a call apply_uk_filters_and_score(input_data, uk_docs, enable_fallback)
CallUK ==
    /\ pc = "idle"
    /\ \E p \in UKProfiles, ds \in Pools(UKDocs), ef \in BOOLEAN :
          /\ input_data' = p
          /\ docs' = ds
          /\ enable_fallback' = ef
    /\ engine' = "UK"
    /\ filtered' = <<>>
    /\ fallback_info' = NoFallback
    /\ scored' = <<>>
    /\ pc' = "uk_filter"
    /\ UNCHANGED <<country, response>>

\* lines 238-270
UK_HardFilter ==
    /\ pc = "uk_filter"
    /\ filtered' = SelectSeq(docs, LAMBDA d : UK_HardPass(input_data, d))
    /\ pc' = "uk_guard"
    /\ UNCHANGED <<engine, input_data, docs, enable_fallback, fallback_info, scored, country, response>>

\* lines 273-274
UK_EnterFallback ==
    /\ pc = "uk_guard"
    /\ IF UK_FallbackGuard(filtered, enable_fallback)
       THEN /\ fallback_info' = [fallback_info EXCEPT !.applied = TRUE]
            /\ pc' = "uk_step1"
       ELSE /\ fallback_info' = fallback_info
            /\ pc' = "uk_final"
    /\ UNCHANGED <<engine, input_data, docs, enable_fallback, filtered, scored, country, response>>

\* lines 276-282
UK_Step1 ==
    Rung("uk_step1", "uk_step2", UK_Step1Guard(input_data, filtered),
         "relax_region", UK_Step1Set(input_data, docs))

\* lines 284-293
UK_Step2 ==
    Rung("uk_step2", "uk_step3", UK_Step2Guard(input_data, filtered),
         BudgetLabel(input_data), UK_Step2Set(input_data, docs))

\* lines 295-305
UK_Step3 ==
    Rung("uk_step3", "uk_step4", UK_Step3Guard(input_data, filtered),
         "relax_placement", UK_Step3Set(input_data, docs))

\* lines 307-313
UK_Step4 ==
    Rung("uk_step4", "uk_step5", UK_Step4Guard(input_data, filtered),
         "relax_oxbridge", UK_Step4Set(input_data, docs))

\* lines 315-321
UK_Step5 ==
    Rung("uk_step5", "uk_step6", UK_Step5Guard(input_data, filtered),
         "relax_foundation", UK_Step5Set(input_data, docs))

\* lines 323-333
UK_Step6 ==
    Rung("uk_step6", "uk_final", Len(filtered) = 0, "pool", UK_PoolSet(docs, filtered))

\* lines 335-341: after the enable_fallback block, at function level
UK_Final ==
    Rung("uk_final", "uk_score", Len(filtered) = 0 /\ Len(UK_All(docs)) > 0,
         "final", UK_FinalSet(docs))

\* lines 343-397
UK_Score ==
    /\ pc = "uk_score"
    /\ scored' = UK_Scored(input_data, filtered)
    /\ pc' = "done"
    /\ UNCHANGED <<engine, input_data, docs, enable_fallback, filtered, fallback_info, country, response>>

-----------------------------------------------------------------------------
(* Singapore: inputs and steps *)

SGDocs == {
    [id |-> "s1", country |-> "Singapore", rank |-> 10, tuition_usd |-> 100,
     tuition_grant_available |-> TRUE, tuition_grant_bond_years |-> 0,
     interview_required |-> TRUE, essay_or_portfolio_required |-> FALSE,
     industry_links_score |-> 10, coop_or_internship_required |-> TRUE,
     tags |-> <<"double degree">>, exchange_opportunities_score |-> 10,
     safety_score |-> 10, scholarship_available |-> TRUE,
     strengths |-> <<"Computer Science">>],
    [id |-> "s2", country |-> "Singapore", rank |-> 20, tuition_usd |-> 90,
     tuition_grant_available |-> TRUE, tuition_grant_bond_years |-> 0,
     interview_required |-> TRUE, essay_or_portfolio_required |-> FALSE,
     industry_links_score |-> 10, coop_or_internship_required |-> TRUE,
     tags |-> <<"double degree">>, exchange_opportunities_score |-> 10,
     safety_score |-> 10, scholarship_available |-> TRUE,
     strengths |-> <<"Computer Science">>],
    [id |-> "s3", country |-> "Singapore", rank |-> 200, tuition_usd |-> 108,
     tuition_grant_available |-> TRUE, tuition_grant_bond_years |-> 3,
     interview_required |-> FALSE, essay_or_portfolio_required |-> FALSE,
     industry_links_score |-> None, coop_or_internship_required |-> FALSE,
     tags |-> <<>>, exchange_opportunities_score |-> None,
     safety_score |-> None, scholarship_available |-> FALSE,
     strengths |-> <<" Law ", " ">>],
    [id |-> "s4", country |-> "Singapore", rank |-> None, tuition_usd |-> 125,
     tuition_grant_available |-> FALSE, tuition_grant_bond_years |-> None,
     interview_required |-> FALSE, essay_or_portfolio_required |-> TRUE,
     industry_links_score |-> 4, coop_or_internship_required |-> FALSE,
     tags |-> <<"sports">>, exchange_opportunities_score |-> 5,
     safety_score |-> 8, scholarship_available |-> TRUE,
     strengths |-> <<>>],
    [id |-> "x3", country |-> "Malaysia", rank |-> 5, tuition_usd |-> 50,
     tuition_grant_available |-> TRUE, tuition_grant_bond_years |-> 0,
     interview_required |-> FALSE, essay_or_portfolio_required |-> FALSE,
     industry_links_score |-> 10, coop_or_internship_required |-> TRUE,
     tags |-> <<>>, exchange_opportunities_score |-> 10,
     safety_score |-> 10, scholarship_available |-> TRUE,
     strengths |-> <<"Computer Science">>] }

SGPreset(k) ==
    CASE k = "strong" ->
           [budget_usd |-> 100, budget_tolerance |-> "20%", academic_band |-> "3.9+",
            interests |-> <<"Computer Science">>, reputation_vs_value |-> "rep_first",
            orientation |-> "industry", bond_acceptance |-> "willing",
            interview_portfolio |-> "willing", want_double_degree |-> TRUE,
            want_exchange |-> TRUE, safety_importance |-> "important",
            scholarship_importance |-> "important"]
      [] k = "value" ->
           [budget_usd |-> 100, budget_tolerance |-> "10%", academic_band |-> "3.6+",
            interests |-> <<" Law ", "Computer Science">>, reputation_vs_value |-> "value_first",
            orientation |-> "research", bond_acceptance |-> "unwilling",
            interview_portfolio |-> "normal", want_double_degree |-> TRUE,
            want_exchange |-> FALSE, safety_importance |-> "normal",
            scholarship_importance |-> "normal"]
      [] OTHER ->
           [budget_usd |-> 0, budget_tolerance |-> "0%", academic_band |-> "3.6-",
            interests |-> <<>>, reputation_vs_value |-> "balanced",
            orientation |-> "balanced", bond_acceptance |-> "indifferent",
            interview_portfolio |-> "unwilling", want_double_degree |-> FALSE,
            want_exchange |-> FALSE, safety_importance |-> "no",
            scholarship_importance |-> "not_important"]

SGProfiles ==
    {Merge([hard_budget_must_within |-> hb, tg_must |-> tg, hard_refuse_bond |-> rb,
            hard_refuse_interview_or_portfolio |-> ri, main_concern |-> mc],
           SGPreset(k)) :
        hb \in BOOLEAN, tg \in BOOLEAN, rb \in BOOLEAN, ri \in BOOLEAN,
        mc \in {"over_budget", "interview", "tg_bond", "unsure"}, k \in Presets}

\* a call apply_sg_filters_and_score(input_data, sg_docs, enable_fallback)
CallSG ==
    /\ pc = "idle"
    /\ \E p \in SGProfiles, ds \in Pools(SGDocs), ef \in BOOLEAN :
          /\ input_data' = p
          /\ docs' = ds
          /\ enable_fallback' = ef
    /\ engine' = "SG"
    /\ filtered' = <<>>
    /\ fallback_info' = NoFallback
    /\ scored' = <<>>
    /\ pc' = "sg_filter"
    /\ UNCHANGED <<country, response>>

\* lines 215-236
SG_HardFilter ==
    /\ pc = "sg_filter"
    /\ filtered' = SelectSeq(docs, LAMBDA d : SG_HardPass(input_data, d))
    /\ pc' = "sg_guard"
    /\ UNCHANGED <<engine, input_data, docs, enable_fallback, fallback_info, scored, country, response>>

\* lines 239-240
SG_EnterFallback ==
    /\ pc = "sg_guard"
    /\ IF SG_FallbackGuard(filtered, enable_fallback)
       THEN /\ fallback_info' = [fallback_info EXCEPT !.applied = TRUE]
            /\ pc' = "sg_step1"
       ELSE /\ fallback_info' = fallback_info
            /\ pc' = "sg_final"
    /\ UNCHANGED <<engine, input_data, docs, enable_fallback, filtered, scored, country, response>>

\* lines 242-257
SG_Step1 ==
    Rung("sg_step1", "sg_step2", SG_Step1Guard(input_data, filtered),
         BudgetLabel(input_data), SG_Step1Set(input_data, docs))

\* lines 259-273
SG_Step2 ==
    Rung("sg_step2", "sg_step3", SG_Step2Guard(input_data, filtered),
         "relax_interview", SG_Step2Set(input_data, docs))

\* lines 275-287
SG_Step3 ==
    Rung("sg_step3", "sg_step4", SG_Step3Guard(input_data, filtered),
         "relax_bond", SG_Step3Set(input_data, docs))

\* lines 289-301
SG_Step4 ==
    Rung("sg_step4", "sg_step5", SG_Step4Guard(input_data, filtered),
         "relax_tg", SG_Step4Set(input_data, docs))

\* lines 303-309
SG_Step5 ==
    Rung("sg_step5", "sg_step6", Len(filtered) = 0, "relax_academic",
         SG_Step5Set(input_data, docs))

\* lines 311-321
SG_Step6 ==
    Rung("sg_step6", "sg_final", Len(filtered) = 0, "pool", SG_PoolSet(docs, filtered))

\* lines 323-329: after the enable_fallback block, at function level
SG_Final ==
    Rung("sg_final", "sg_score", Len(filtered) = 0 /\ Len(SG_All(docs)) > 0,
         "final", SG_FinalSet(docs))

\* lines 331-391
SG_Score ==
    /\ pc = "sg_score"
    /\ scored' = SG_Scored(input_data, filtered)
    /\ pc' = "done"
    /\ UNCHANGED <<engine, input_data, docs, enable_fallback, filtered, fallback_info, country, response>>

-----------------------------------------------------------------------------

NextEngines ==
    \/ CallAU
    \/ AU_HardFilter
    \/ AU_EnterFallback
    \/ AU_Step1
    \/ AU_Step2
    \/ AU_Step3
    \/ AU_Step4
    \/ AU_Step5
    \/ AU_Final
    \/ AU_Score
    \/ CallUK
    \/ UK_HardFilter
    \/ UK_EnterFallback
    \/ UK_Step1
    \/ UK_Step2
    \/ UK_Step3
    \/ UK_Step4
    \/ UK_Step5
    \/ UK_Step6
    \/ UK_Final
    \/ UK_Score
    \/ CallSG
    \/ SG_HardFilter
    \/ SG_EnterFallback
    \/ SG_Step1
    \/ SG_Step2
    \/ SG_Step3
    \/ SG_Step4
    \/ SG_Step5
    \/ SG_Step6
    \/ SG_Final
    \/ SG_Score

SpecEngines == Init /\ [][NextEngines]_vars

-----------------------------------------------------------------------------
(* The generic pipeline: gpt/recommend_schools.py                           *)
(* Tokens: cs_zh = 计算机科学, b35_40 = 35万-40万, b60plus = 60万+,         *)
(* research = 科研, internship = 实习经历, career_planning = 职业规划.      *)
(* Tuition and budgets are in dollars, rates in percent.                    *)

MaxUSAPool == 5

\* an Optional[List[str]] field left at its default None
NoList == <<"None">>

\* a string field that the document stores as null: school.get(field, "")
\* returns None for it, and "" only for a field that is absent
NullStr == "null"

\* str.lower() on the strings the inputs use
Lower(s) ==
    CASE s = "Private" -> "private"
      [] s = "Public" -> "public"
      [] s = "California" -> "california"
      [] s = "West" -> "west"
      [] s = "New York" -> "new york"
      [] s = "East" -> "east"
      [] s = "Ontario" -> "ontario"
      [] OTHER -> s

\* chinese_to_english: a listed interest is translated, any other is kept
EnglishInterest(interest) == IF interest = "cs_zh" THEN "computer science" ELSE interest

\* budget_map.get(input_data.budget, 100000)
max_tuition(budget) ==
    CASE budget = "b35_40" -> 56000
      [] budget = "b40_50" -> 70000
      [] budget = "b50_60" -> 84000
      [] OTHER -> 100000

\* gpa_rank_map.get(input_data.gpa_range, 200)
max_rank(gpa_range) ==
    CASE gpa_range = "3.6-" -> 150
      [] gpa_range = "3.6+" -> 100
      [] gpa_range = "3.8+" -> 60
      [] gpa_range = "3.9+" -> 30
      [] OTHER -> 200

\* build_hard_filters(input_data, strict_mode) as the predicate the query
\* applies to one document; * 1.5 is taken as 3 / 2 on both sides
USA_Match(p, d, strict_mode) ==
    /\ d.country = p.target_country
    /\ strict_mode =>
          \E i \in 1..Len(p.interest_fields) :
              EnglishInterest(p.interest_fields[i]) \in Range(d.strengths)
    /\ d.tuition # None
    /\ IF strict_mode THEN d.tuition <= max_tuition(p.budget)
       ELSE 2 * d.tuition <= 3 * max_tuition(p.budget)
    /\ d.rank # None
    /\ IF strict_mode THEN d.rank <= max_rank(p.gpa_range)
       ELSE 2 * d.rank <= 3 * max_rank(p.gpa_range)

\* parse_budget_max for the "万" formats, times 9: the last number * 10000 / 7.2
\* is (last number * 12500) / 9; 0 stands for None
parse_budget_max9(budget_str) ==
    CASE budget_str = "b35_40" -> 40 * 12500
      [] budget_str = "b40_50" -> 50 * 12500
      [] budget_str = "b50_60" -> 60 * 12500
      [] budget_str = "b60plus" -> 60 * 12500
      [] OTHER -> 0

\* activity_mappings
ActivityTag(activity) ==
    CASE activity = "research" -> "undergrad_research"
      [] activity = "internship" -> "career_center_support"
      [] activity = "career_planning" -> "career_center_support"
      [] OTHER -> "no_tag"

\* score_school before the final round(), in 1/10000 points (the linear
\* decay of the budget dimension is taken to 1/100 point)
USA_Total(school, p) ==
    LET interests == IF p.interest_fields = NoList THEN <<>> ELSE p.interest_fields
        matches == Cardinality({<<i, j>> \in (1..Len(interests)) \X (1..Len(school.strengths)) :
                       \/ IsSubstring(Lower(interests[i]), Lower(school.strengths[j]))
                       \/ IsSubstring(Lower(school.strengths[j]), Lower(interests[i]))})
        major == IF Len(interests) > 0 /\ Len(school.strengths) > 0
                 THEN Min(Pts(20), (Pts(20) * matches) \div Len(interests))
                 ELSE 0
        rank == IF p.reputation_important /\ school.rank # None /\ school.rank # 0
                THEN Max(0, (Pts(15) * (300 - school.rank)) \div 300)
                ELSE 0
        internship == IF school.internship_support_score = None THEN 0
                      ELSE Pts(Min(10, Max(0, school.internship_support_score)))
        type == IF p.school_type_preference # "" /\ school.type # "" /\
                   Lower(p.school_type_preference) = Lower(school.type)
                THEN Pts(10) ELSE 0
        budget_max9 == parse_budget_max9(p.budget)
        budget == IF p.budget = "" \/ school.tuition = None \/ school.tuition = 0
                     \/ budget_max9 = 0
                  THEN 0
                  ELSE IF 9 * school.tuition <= budget_max9 THEN Pts(10)
                  ELSE Max(0, ((1000 * (2 * budget_max9 - 9 * school.tuition))
                                  \div budget_max9) * (Scale \div 100))
        hits == Cardinality({i \in 1..Len(p.activities) :
                                ActivityTag(p.activities[i]) \in Range(school.tags)})
        activity == IF Len(p.activities) > 0 /\ Len(school.tags) > 0
                    THEN Min(Pts(15), (Pts(5) * hits) \div 2)
                    ELSE 0
        acceptance == IF school.acceptanceRate = None THEN 0
                      ELSE IF school.acceptanceRate >= 15 THEN Pts(5)
                      ELSE IF school.acceptanceRate > 5
                      THEN (Pts(5) * (school.acceptanceRate - 5)) \div 10
                      ELSE 0
        intl == IF school.intlRate = None THEN 0
                ELSE IF school.intlRate >= 35 THEN Pts(5)
                ELSE IF school.intlRate > 3 THEN (Pts(5) * (school.intlRate - 3)) \div 32
                ELSE 0
        region == IF p.region_preference # "" /\
                     (\/ IsSubstring(Lower(p.region_preference), Lower(school.state))
                      \/ IsSubstring(Lower(p.region_preference), Lower(school.region)))
                  THEN Pts(5) ELSE 0
    IN  major + rank + internship + type + budget + activity + acceptance + intl + region

\* variant of score_school that cuts the total to two decimals instead of
\* rounding it (sensitivity of the rounded-sum property to line 213)
score_school_Truncated(school, p) ==
    [id |-> school.id, score |-> USA_Total(school, p) \div 100,
     rank |-> school.rank, tuition |-> school.tuition]

\* lines 204-210: school_state.lower() and school_region.lower() raise
\* AttributeError on None; the second is evaluated only if the first operand
\* of `or` is false
score_school_raises(school, p) ==
    /\ p.region_preference # ""
    /\ \/ school.state = NullStr
       \/ /\ ~IsSubstring(Lower(p.region_preference), Lower(school.state))
          /\ school.region = NullStr

\* one (school, score) pair of scored_schools
score_school(school, p) ==
    [id |-> school.id, score |-> Round2(USA_Total(school, p)),
     rank |-> school.rank, tuition |-> school.tuition]

\* variant of USA_SortKey with the secondary keys of the market engines
\* (sensitivity of the tie order to the sort key)
USA_SortKey_Tuition(x) == <<0 - x.score, x.tuition, x.rank>>

\* sorted(scored_schools, key=lambda x: x[1], reverse=True)
USA_SortKey(x) == <<0 - x.score>>

USA_MinFiltered == 5

USA_MinScored == 10

USA_MaxAdditional == 10

USA_TopN == 10

\* db.universities.find(filters).to_list(length=None)
USA_Find(p, ds, strict_mode) == SelectSeq(ds, LAMBDA d : USA_Match(p, d, strict_mode))

\* lines 303-314: the schools of country "USA" not yet in the list, at most 10
USA_Additional(ds, cur) ==
    Take(SelectSeq(InCountry(ds, "USA"), LAMBDA d : d.id \notin Ids0(cur)), USA_MaxAdditional)

\* variant of USA_Top that keeps the first ten in the order of the list,
\* without the sort (sensitivity of the top-ten property to line 321)
USA_Top_Unsorted(p, ds) ==
    Take([i \in 1..Len(ds) |-> score_school(ds[i], p)], USA_TopN)

\* lines 318-324: score, sort, keep the first ten
USA_Top(p, ds) ==
    LET scored_schools == [i \in 1..Len(ds) |-> score_school(ds[i], p)]
        top_schools == Items(SortPairs([i \in 1..Len(scored_schools) |->
                           <<USA_SortKey(scored_schools[i]), scored_schools[i]>>]))
    IN  Take(top_schools, USA_TopN)

USADocs == {
    [id |-> "s1", country |-> "USA", strengths |-> <<"computer science">>,
     tuition |-> 50000, rank |-> 30, internship_support_score |-> 8, type |-> "private",
     tags |-> <<"undergrad_research", "career_center_support">>,
     acceptanceRate |-> 10, intlRate |-> 19, state |-> "California", region |-> "West"],
    [id |-> "s2", country |-> "USA", strengths |-> <<"computer science">>,
     tuition |-> 40000, rank |-> 60, internship_support_score |-> 8, type |-> "private",
     tags |-> <<"undergrad_research", "career_center_support">>,
     acceptanceRate |-> 10, intlRate |-> 19, state |-> "California", region |-> "West"],
    [id |-> "s3", country |-> "USA", strengths |-> <<"computer science", "law">>,
     tuition |-> 56000, rank |-> 45, internship_support_score |-> None, type |-> "public",
     tags |-> <<>>, acceptanceRate |-> 4, intlRate |-> None,
     state |-> "New York", region |-> NullStr],
    [id |-> "s4", country |-> "USA", strengths |-> <<"law">>,
     tuition |-> 80000, rank |-> 90, internship_support_score |-> 12, type |-> "public",
     tags |-> <<"career_center_support">>, acceptanceRate |-> 20, intlRate |-> 40,
     state |-> "New York", region |-> "East"],
    [id |-> "s5", country |-> "USA", strengths |-> <<"computer science">>,
     tuition |-> 50000, rank |-> 30, internship_support_score |-> 8, type |-> "private",
     tags |-> <<"undergrad_research", "career_center_support">>,
     acceptanceRate |-> 10, intlRate |-> 19, state |-> "California", region |-> "West"],
    [id |-> "c1", country |-> "Canada", strengths |-> <<"computer science">>,
     tuition |-> 30000, rank |-> 20, internship_support_score |-> 5, type |-> "public",
     tags |-> <<>>, acceptanceRate |-> 40, intlRate |-> 30,
     state |-> "Ontario", region |-> "East"]}

USAPreset(k) ==
    IF k = "full"
    THEN [budget |-> "b35_40", gpa_range |-> "3.8+", school_type_preference |-> "Private",
          activities |-> <<"research", "internship", "career_planning">>,
          region_preference |-> "California"]
    ELSE [budget |-> "b60plus", gpa_range |-> "3.6-", school_type_preference |-> "",
          activities |-> <<>>, region_preference |-> ""]

\* the profiles sent with target_country = c
USAProfiles(c) ==
    {Merge([target_country |-> c, interest_fields |-> fs, reputation_important |-> rep],
           USAPreset(k)) :
        fs \in {NoList, <<"cs_zh">>, <<"cs_zh", "law">>}, rep \in BOOLEAN, k \in {"full", "bare"}}

\* the universities collection, in its natural order
USAPools == {s \in SeqsUpTo(USADocs, MaxUSAPool) : Injective(s)}

\* line 275: build_hard_filters iterates input_data.interest_fields, which
\* raises TypeError when the field is None; else the strict query (276)
USA_Strict ==
    /\ pc = "usa_strict"
    /\ IF input_data.interest_fields = NoList
       THEN /\ pc' = "error"
            /\ filtered' = filtered
       ELSE /\ pc' = "usa_loose"
            /\ filtered' = USA_Find(input_data, docs, TRUE)
    /\ UNCHANGED <<engine, input_data, docs, enable_fallback, fallback_info, scored, country, response>>

\* lines 279-285
USA_Loose ==
    /\ pc = "usa_loose"
    /\ IF Len(filtered) < USA_MinFiltered
       THEN /\ filtered' = USA_Find(input_data, docs, FALSE)
            /\ pc' = "usa_basic"
       ELSE /\ filtered' = filtered
            /\ pc' = "usa_supplement"
    /\ UNCHANGED <<engine, input_data, docs, enable_fallback, fallback_info, scored, country, response>>

\* lines 288-294
USA_Basic ==
    /\ pc = "usa_basic"
    /\ filtered' = IF Len(filtered) < USA_MinFiltered
                   THEN InCountry(docs, input_data.target_country)
                   ELSE filtered
    /\ pc' = "usa_supplement"
    /\ UNCHANGED <<engine, input_data, docs, enable_fallback, fallback_info, scored, country, response>>

\* lines 297-315
USA_Supplement ==
    /\ pc = "usa_supplement"
    /\ filtered' = IF Len(filtered) < USA_MinScored /\ Len(filtered) < USA_MinFiltered
                   THEN filtered \o USA_Additional(docs, filtered)
                   ELSE filtered
    /\ pc' = "usa_score"
    /\ UNCHANGED <<engine, input_data, docs, enable_fallback, fallback_info, scored, country, response>>

\* lines 318-327
USA_Score ==
    /\ pc = "usa_score"
    /\ IF \E i \in 1..Len(filtered) : score_school_raises(filtered[i], input_data)
       THEN /\ scored' = scored
            /\ pc' = "error"
       ELSE /\ scored' = USA_Top(input_data, filtered)
            /\ pc' = "done"
    /\ UNCHANGED <<engine, input_data, docs, enable_fallback, filtered, fallback_info, country, response>>

-----------------------------------------------------------------------------
(* The dispatcher: routes/evals.py, create_parent_evaluation *)

Countries == {"Australia", "United Kingdom", "Singapore", "USA", "Canada"}

TopRecommended == 5

\* variant of Branch that refuses a country outside the four markets
\* (sensitivity of the dispatch property to the final `else`)
Branch_Closed(c) ==
    IF c = "Australia" THEN "AU"
    ELSE IF c = "United Kingdom" THEN "UK"
    ELSE IF c = "Singapore" THEN "SG"
    ELSE IF c = "USA" THEN "USA"
    ELSE "error"

\* lines 36, 68, 75, 87: the if / elif / elif / else on country
Branch(c) ==
    IF c = "Australia" THEN "AU"
    ELSE IF c = "United Kingdom" THEN "UK"
    ELSE IF c = "Singapore" THEN "SG"
    ELSE "USA"

\* Collections longer than the shortlists: MaxLongPool schools of one market
\* (the handler keeps five), and ten to MaxLongUSAPool schools of the generic
\* collection (the pipeline keeps ten and wants ten to score). The schools
\* are copies of the first document of the market under new ids, with ranks
\* and tuitions spread around the presets' bands and budgets.
MaxLongPool == 6

MaxLongUSAPool == 11

LongIds == <<"n01", "n02", "n03", "n04", "n05", "n06", "n07", "n08", "n09", "n10",
             "n11", "n12", "n13", "n14">>

LongDoc(base, i) ==
    [base EXCEPT !.id = LongIds[i], !.rank = 35 * i, !.tuition_usd = 85 + 5 * ((3 * i) % 7)]

LongPool(S, first, n) ==
    LET base == CHOOSE d \in S : d.id = first
    IN  [i \in 1..n |-> LongDoc(base, i)]

\* the first six match the interest "computer science", the others "law"
LongUSADoc(i) ==
    LET base == CHOOSE d \in USADocs : d.id = "s1"
    IN  [base EXCEPT !.id = LongIds[i], !.rank = 8 * i, !.tuition = 40000 + 3000 * ((3 * i) % 7),
                     !.strengths = IF i <= 6 THEN <<"computer science">> ELSE <<"law">>]

LongUSAPools == {[i \in 1..n |-> LongUSADoc(i)] : n \in 10..MaxLongUSAPool}

\* lines 33-91: take the request, read the market's collection, enter the branch
Dispatch ==
    /\ pc = "idle"
    /\ \E c \in Countries :
          /\ country' = c
          /\ engine' = IF Branch(c) = "error" THEN "none" ELSE Branch(c)
          /\ CASE Branch(c) = "AU" ->
                    \E p \in AUProfiles, ds \in Pools(AUDocs) \cup {LongPool(AUDocs, "a1", MaxLongPool)} :
                        input_data' = p /\ docs' = AU_All(ds) /\ pc' = "au_filter"
               [] Branch(c) = "UK" ->
                    \E p \in UKProfiles, ds \in Pools(UKDocs) \cup {LongPool(UKDocs, "u1", MaxLongPool)} :
                        input_data' = p /\ docs' = UK_All(ds) /\ pc' = "uk_filter"
               [] Branch(c) = "SG" ->
                    \E p \in SGProfiles, ds \in Pools(SGDocs) \cup {LongPool(SGDocs, "s1", MaxLongPool)} :
                        input_data' = p /\ docs' = SG_All(ds) /\ pc' = "sg_filter"
               [] Branch(c) = "USA" ->
                    \E p \in USAProfiles(c), ds \in USAPools \cup LongUSAPools :
                        input_data' = p /\ docs' = ds /\ pc' = "usa_strict"
               [] OTHER ->
                    \E p \in USAProfiles(c) :
                        input_data' = p /\ docs' = <<>> /\ pc' = "error"
    /\ enable_fallback' = TRUE
    /\ filtered' = <<>>
    /\ fallback_info' = NoFallback
    /\ scored' = <<>>
    /\ response' = response

\* lines 53-62, 71-72, 81-82, 89: recommended_school_ids
RecommendedIds ==
    LET top == Take(scored, TopRecommended)
        ids == [i \in 1..Len(top) |-> top[i].id]
        sorted_by_rank == SortedByRank(docs)
        schools == Take(sorted_by_rank, TopRecommended)
    IN  IF engine = "USA" THEN [i \in 1..Len(scored) |-> scored[i].id]
        ELSE IF engine = "AU" /\ Len(ids) = 0 THEN [i \in 1..Len(schools) |-> schools[i].id]
        ELSE ids

\* One explanation line: the text is kept as the kind of the line and, where
\* the properties read it, what the line says (`detail`).
Line(kind, detail) == [kind |-> kind, detail |-> detail]

When(cond, line) == IF cond THEN <<line>> ELSE <<>>

\* au_evaluation.py 460-467, uk_evaluation.py 415-422, sg_evaluation.py
\* 409-416: the wording of the academic-tier line, chosen by the rank alone
\* (`top` is 60 in the Australian generator and 50 in the other two).
\* matches = 与您的目标层级匹配, near = 接近您的目标层级,
\* slightly_over = 略超您的目标层级, out_of_range = 超出目标范围
level_desc(rank, top) ==
    IF rank <= top THEN "matches"
    ELSE IF rank <= 100 THEN "near"
    ELSE IF rank <= 200 THEN "slightly_over"
    ELSE "out_of_range"

\* au_evaluation.py 444-605: the lines of one Australian school. The budget
\* line guards budget_usd <= 0 (line 492); the function takes no fallback
\* report and appends no relaxation line.
AU_explanations(school, p) ==
    LET budget_desc ==
            IF p.budget_usd <= 0 THEN "unset"
            ELSE IF TuitionOf(school) <= p.budget_usd THEN "within"
            ELSE IF p.hard_budget_must_within THEN "over_needs_relaxing"
            ELSE "over"
    IN  <<Line("level", <<level_desc(RankOf(school), 60)>>), Line("major", <<>>),
          Line("budget", <<budget_desc>>),
          Line("wil", <<>>), Line("city", <<>>), Line("psw", <<>>),
          Line("english", <<>>), Line("scholarship", <<>>)>>
        \o When(school.group_of_eight, Line("go8", <<>>))
        \o When(school.study_length_years # None /\ school.study_length_years # 0,
                Line("study_length", <<>>))
        \o When(school.intakes # "", Line("intakes", <<>>))

\* uk_evaluation.py 448-451, sg_evaluation.py 450-453: over_pct divides by
\* budget_usd with no guard, so the generator raises ZeroDivisionError for a
\* school over a budget of 0
explanation_raises(school, p) == TuitionOf(school) > p.budget_usd /\ p.budget_usd = 0

\* uk_evaluation.py 400-548, when it does not raise; fallback_reason is the
\* list of step labels the handler joins with "; "
UK_explanations(school, p, fallback_applied, fallback_reason) ==
    LET budget_desc ==
            IF TuitionOf(school) <= p.budget_usd THEN "within"
            ELSE IF p.hard_budget_must_within \/ p.budget_tolerance \in {"10%", "20%"}
            THEN "over_kept_by_relaxation"
            ELSE "over"
    IN  <<Line("level", <<level_desc(RankOf(school), 50)>>), Line("major", <<>>),
          Line("budget", <<budget_desc>>),
          Line("ucas", <<>>), Line("placement", <<>>), Line("russell", <<>>),
          Line("materials", <<>>), Line("region", <<>>)>>
        \o When(p.foundation_need # "no", Line("foundation", <<>>))
        \o When(fallback_applied /\ Len(fallback_reason) > 0, Line("relaxation", fallback_reason))

\* sg_evaluation.py 394-536, when it does not raise
SG_explanations(school, p, fallback_applied, fallback_reason) ==
    LET budget_desc ==
            IF TuitionOf(school) <= p.budget_usd THEN "within"
            ELSE IF p.hard_budget_must_within /\ fallback_applied THEN "over_budget_relaxed"
            ELSE "over"
    IN  <<Line("level", <<level_desc(RankOf(school), 50)>>), Line("major", <<>>),
          Line("budget", <<budget_desc>>),
          Line("training", <<>>), Line("tg_bond", <<>>), Line("selection", <<>>)>>
        \o When(p.want_double_degree, Line("double_degree", <<>>))
        \o When(p.want_exchange, Line("exchange", <<>>))
        \o <<Line("safety", <<>>)>>
        \o When(fallback_applied /\ Len(fallback_reason) > 0, Line("relaxation", fallback_reason))

\* evals.py 247, 314, 392: the document of a recommended id
SchoolDetail(id) == CHOOSE s \in Range(docs) : s.id = id

\* evals.py 317-319, 395-397: "; ".join(steps) if the report says applied
FallbackReason == IF fallback_info.applied THEN fallback_info.steps ELSE <<>>

\* evals.py 231-270 (AU, inside try/except), 303-335 (UK) and 379-412 (SG),
\* both without one: the explanation of each recommended school
Explanations ==
    [id \in Range(RecommendedIds) |->
        IF engine = "AU" THEN AU_explanations(SchoolDetail(id), input_data)
        ELSE IF engine = "UK"
        THEN UK_explanations(SchoolDetail(id), input_data, fallback_info.applied, FallbackReason)
        ELSE IF engine = "SG"
        THEN SG_explanations(SchoolDetail(id), input_data, fallback_info.applied, FallbackReason)
        ELSE <<>>]

\* every order of the elements of S
RECURSIVE Orders(_)
Orders(S) ==
    IF S = {} THEN {<<>>}
    ELSE UNION {{<<x>> \o q : q \in Orders(S \ {x})} : x \in S}

\* lines 67, 74, 85, 91: find({"_id": {"$in": ids}}), a query without a sort:
\* the documents whose id is listed, in an order the query does not fix
find_in(ids) == Orders({d \in Range(docs) : d.id \in Range(ids)})

\* lines 60-61: the Australian branch without recommended ids takes the
\* first five of the collection by rank, in that order
TopByRank == Take(SortedByRank(docs), TopRecommended)

\* the `schools` the handler may hold after lines 53-91. The list of the
\* generic branch is read only by classify_applications, which is modelled
\* with every list it can be given (SpecClassify); it is left out here.
SchoolsFound ==
    IF engine = "USA" THEN {<<>>}
    ELSE IF engine = "AU" /\ Len(scored) = 0 THEN {TopByRank}
    ELSE find_in(RecommendedIds)

\* lines 238, 309, 387: score_map.get(school_id, 0) over the top five
score_map(id) ==
    LET top == Take(scored, TopRecommended)
    IN  IF \E i \in 1..Len(top) : top[i].id = id
        THEN (CHOOSE r \in Range(top) : r.id = id).score
        ELSE 0

\* lines 128-227 and 241-270, 311-335, 389-412: one entry per element of
\* `schools`, in the order of `schools`; the Australian branch keeps five
\* (line 241)
recommended_schools(schools) ==
    LET kept == IF engine = "AU" THEN Take(schools, TopRecommended) ELSE schools
    IN  [i \in 1..Len(kept) |-> [id |-> kept[i].id, matchScore |-> score_map(kept[i].id)]]

\* an exception of the UK or SG generator leaves the loop and the handler
ExplainFails ==
    /\ engine \in {"UK", "SG"}
    /\ \E id \in Range(RecommendedIds) : explanation_raises(SchoolDetail(id), input_data)

\* input_dict.update(...) in place of the copy: the keys land in the profile
input_dict_after_Update(input_dict, applied, reason) ==
    Merge([_fallback_applied |-> applied, _fallback_reason |-> reason], input_dict)

\* evals.py 323, 400: the UK and SG generators are handed
\* {**input_dict, "_fallback_applied": ..., "_fallback_reason": ...}, a new
\* dictionary; input_dict itself is what it was (line 250 passes it as it is
\* and au_evaluation.py 444-605 only reads it)
input_dict_after(input_dict, applied, reason) == input_dict

\* lines 93-480: the evaluation is stored and the response returned; an
\* exception on the way becomes HTTPException(status_code=500)
Respond ==
    /\ pc = "done" /\ country # "none"
    /\ input_data' = IF engine \in {"UK", "SG"}
                     THEN input_dict_after(input_data, fallback_info.applied, FallbackReason)
                     ELSE input_data
    /\ \E schools \in SchoolsFound :
          response' = IF ExplainFails
                      THEN [status |-> 500, recommended_school_ids |-> <<>>,
                            explanations |-> <<>>, recommendedSchools |-> <<>>]
                      ELSE [status |-> 200, recommended_school_ids |-> RecommendedIds,
                            explanations |-> Explanations,
                            recommendedSchools |-> recommended_schools(schools)]
    /\ pc' = "responded"
    /\ UNCHANGED <<engine, docs, enable_fallback, filtered, fallback_info, scored, country>>

\* lines 476-480: any exception becomes HTTPException(status_code=500)
Fail ==
    /\ pc = "error"
    /\ response' = [status |-> 500, recommended_school_ids |-> <<>>, explanations |-> <<>>,
                    recommendedSchools |-> <<>>]
    /\ pc' = "responded"
    /\ UNCHANGED <<engine, input_data, docs, enable_fallback, filtered, fallback_info, scored, country>>

NextDispatch ==
    \/ Dispatch
    \/ AU_HardFilter \/ AU_EnterFallback \/ AU_Step1 \/ AU_Step2 \/ AU_Step3
    \/ AU_Step4 \/ AU_Step5 \/ AU_Final \/ AU_Score
    \/ UK_HardFilter \/ UK_EnterFallback \/ UK_Step1 \/ UK_Step2 \/ UK_Step3
    \/ UK_Step4 \/ UK_Step5 \/ UK_Step6 \/ UK_Final \/ UK_Score
    \/ SG_HardFilter \/ SG_EnterFallback \/ SG_Step1 \/ SG_Step2 \/ SG_Step3
    \/ SG_Step4 \/ SG_Step5 \/ SG_Step6 \/ SG_Final \/ SG_Score
    \/ USA_Strict \/ USA_Loose \/ USA_Basic \/ USA_Supplement \/ USA_Score
    \/ Respond \/ Fail

SpecDispatch == Init /\ [][NextDispatch]_vars

-----------------------------------------------------------------------------
(* Properties of the three market engines *)

Markets == {"AU", "UK", "SG"}

\* an engine call has returned (scored, fallback_info)
EngineReturned == pc = "done" /\ engine \in Markets

MarketCountry ==
    IF engine = "AU" THEN "Australia"
    ELSE IF engine = "UK" THEN "United Kingdom"
    ELSE "Singapore"

Classes == IF engine = "AU" THEN AU_Classes ELSE IF engine = "UK" THEN UK_Classes ELSE SG_Classes

ClassPass(c, d) ==
    IF engine = "AU" THEN AU_ClassPass(c, input_data, d)
    ELSE IF engine = "UK" THEN UK_ClassPass(c, input_data, d)
    ELSE SG_ClassPass(c, input_data, d)

HardPass(d) ==
    IF engine = "AU" THEN AU_HardPass(input_data, d)
    ELSE IF engine = "UK" THEN UK_HardPass(input_data, d)
    ELSE SG_HardPass(input_data, d)

\* what the initial hard-filter pass keeps of the pool
HardSurvivors == SelectSeq(docs, HardPass)

MarketDocs == InCountry(docs, MarketCountry)

DocById(id) == CHOOSE d \in Range(docs) : d.id = id

Steps == fallback_info.steps

\* the declared rung order of each ladder, as the position of a label
StepIndex(label) ==
    IF engine = "AU"
    THEN CASE label = "relax_city" -> 1
           [] label = "relax_budget_10" -> 2
           [] label = "relax_english" -> 3
           [] label = "relax_wil" -> 4
           [] label = "pool" -> 5
           [] label = "final" -> 6
           [] OTHER -> 0
    ELSE IF engine = "UK"
    THEN CASE label = "relax_region" -> 1
           [] label \in {"relax_budget_10", "relax_budget_20"} -> 2
           [] label = "relax_placement" -> 3
           [] label = "relax_oxbridge" -> 4
           [] label = "relax_foundation" -> 5
           [] label = "pool" -> 6
           [] label = "final" -> 7
           [] OTHER -> 0
    ELSE CASE label \in {"relax_budget_10", "relax_budget_20"} -> 1
           [] label = "relax_interview" -> 2
           [] label = "relax_bond" -> 3
           [] label = "relax_tg" -> 4
           [] label = "relax_academic" -> 5
           [] label = "pool" -> 6
           [] label = "final" -> 7
           [] OTHER -> 0

\* the class of hard constraint a step label names ("none" for the rungs
\* that name no hard constraint)
RelaxedClass(label) ==
    CASE label = "relax_city" -> "city"
      [] label \in {"relax_budget_10", "relax_budget_20"} -> "budget"
      [] label = "relax_english" -> "english"
      [] label = "relax_wil" -> "wil"
      [] label = "relax_region" -> "region"
      [] label = "relax_placement" -> "placement"
      [] label = "relax_oxbridge" -> "oxbridge"
      [] label = "relax_foundation" -> "foundation"
      [] label = "relax_interview" -> "interview"
      [] label = "relax_bond" -> "bond"
      [] label = "relax_tg" -> "tg"
      [] OTHER -> "none"

\* the profile switches the hard constraint of class c on
ClassActive(c) ==
    CASE c = "budget" -> input_data.hard_budget_must_within
      [] c = "city" -> AU_has_city_limit(input_data)
      [] c = "wil" -> AU_must_wil(input_data)
      [] c = "english" -> input_data.hard_english_required_exclude
      [] c = "region" -> UK_has_region_limit(input_data)
      [] c = "placement" -> input_data.placement_year_pref = "must"
      [] c = "oxbridge" -> input_data.oxbridge_must_cover
      [] c = "foundation" -> input_data.foundation_need = "must"
      [] c = "interview" -> input_data.hard_refuse_interview_or_portfolio
      [] c = "bond" -> input_data.hard_refuse_bond
      [] c = "tg" -> input_data.tg_must
      [] OTHER -> FALSE

\* C1: with enable_fallback = True and at least one candidate of the market's
\* country in the pool, the ranked list an engine returns is never empty,
\* also when the initial hard filter keeps nothing.
C1_LastResort ==
    (EngineReturned /\ enable_fallback /\ Len(MarketDocs) > 0) => Len(scored) > 0

\* a call with the fallback on whose hard filter kept nothing of a pool that
\* holds a candidate of the market, and which returned a non-empty list
C1_Witness ==
    /\ EngineReturned /\ enable_fallback
    /\ Len(MarketDocs) > 0 /\ Len(HardSurvivors) = 0
    /\ fallback_info.applied /\ Len(scored) > 0

\* C2: if the initial hard filter keeps at least one candidate, no fallback
\* rung runs: the report is applied = false with no steps, and the scored
\* candidates are exactly the hard-filter survivors.
C2_NoFallbackWhenSurvivors ==
    (EngineReturned /\ Len(HardSurvivors) > 0) =>
        /\ fallback_info = NoFallback
        /\ Ids0(scored) = Ids0(HardSurvivors)
        /\ Len(scored) = Len(HardSurvivors)

\* a call with the fallback on whose hard filter kept some, not all, of the
\* market's candidates
C2_Witness ==
    /\ EngineReturned /\ enable_fallback
    /\ Len(HardSurvivors) > 0 /\ Len(HardSurvivors) < Len(MarketDocs)
    /\ Len(scored) = Len(HardSurvivors)

StepsInOrder ==
    \A i, j \in 1..Len(Steps) :
        /\ StepIndex(Steps[i]) > 0
        /\ i < j => StepIndex(Steps[i]) < StepIndex(Steps[j])

LadderNotResumed == Len(filtered) > 0 => fallback_info'.steps = fallback_info.steps

\* C3: the recorded step labels always form a subsequence of the market's
\* declared rung order, and once the candidate set is non-empty no further
\* label is recorded in the run.
C3_LadderOrder == [](engine \in Markets => StepsInOrder) /\ [][LadderNotResumed]_vars

\* a run that recorded two rungs and stopped with candidates before the pool
C3_Witness ==
    /\ EngineReturned /\ Len(Steps) >= 2
    /\ "pool" \notin Range(Steps) /\ "final" \notin Range(Steps)
    /\ Len(scored) > 0

\* the stored score is in hundredths of a point
ScoreInRange(r) == 0 <= r.score /\ r.score <= 100 * 100

\* C4: the total score stored in every match result lies in [0, 100].
C4_ScoreRange == pc = "done" => \A i \in 1..Len(scored) : ScoreInRange(scored[i])

\* C6: whenever the returned report has applied = false, every returned
\* candidate satisfies every hard-filter predicate the profile activates,
\* for either value of enable_fallback.
C6_HardFilterSoundness ==
    (EngineReturned /\ ~fallback_info.applied) =>
        \A i \in 1..Len(scored) : HardPass(DocById(scored[i].id))

RelaxedClasses == {RelaxedClass(Steps[i]) : i \in 1..Len(Steps)}

\* C7: when the ladder stops at a rung before the unconditional pool, every
\* returned candidate still satisfies every active hard-filter predicate
\* whose class is not named by a recorded step label.
C7_OneClassPerRung ==
    (/\ EngineReturned /\ fallback_info.applied
     /\ "pool" \notin Range(Steps) /\ "final" \notin Range(Steps)) =>
        \A i \in 1..Len(scored) :
            \A c \in Classes \ RelaxedClasses : ClassPass(c, DocById(scored[i].id))

LabelRecorded == fallback_info'.steps # fallback_info.steps

NewLabel == fallback_info'.steps[Len(fallback_info'.steps)]

\* C8: a step label is appended only by a rung that changed the candidate
\* set, and, when the label names a hard constraint, only if the profile had
\* that constraint active.
C8_NoIdleRung ==
    [][LabelRecorded =>
          /\ filtered' # filtered
          /\ RelaxedClass(NewLabel) # "none" => ClassActive(RelaxedClass(NewLabel))]_vars

Before(a, b) ==
    \/ a.score > b.score
    \/ a.score = b.score /\ a.tuition_usd < b.tuition_usd
    \/ a.score = b.score /\ a.tuition_usd = b.tuition_usd /\ a.rank <= b.rank

\* C9: the ranked list an engine returns is sorted by descending score, then
\* ascending tuition, then ascending rank: this holds of every adjacent pair.
C9_Sorted ==
    EngineReturned => \A i \in 1..(Len(scored) - 1) : Before(scored[i], scored[i + 1])

\* two results of equal score, ordered by their tuition against their rank
C9_Witness ==
    /\ EngineReturned /\ Len(scored) = 2
    /\ scored[1].score = scored[2].score
    /\ scored[1].tuition_usd < scored[2].tuition_usd
    /\ scored[1].rank > scored[2].rank

-----------------------------------------------------------------------------
(* The engines as functions of (profile, pool, enable_fallback): the steps  *)
(* of the state machine composed in the order of the code                   *)

\* apply_au_filters_and_score, lines 289-441
AU_Run(p, ds, ef) ==
    LET f0 == SelectSeq(ds, LAMBDA d : AU_HardPass(p, d))
        f1 == IF AU_Step1Guard(p, f0) THEN AU_Step1Set(p, ds) ELSE f0
        f2 == IF AU_Step2Guard(p, f1) THEN AU_Step2Set(p, ds) ELSE f1
        f3 == IF AU_Step3Guard(p, f2) THEN AU_Step3Set(p, ds) ELSE f2
        f4 == IF AU_Step4Guard(p, f3) THEN AU_Step4Set(p, ds) ELSE f3
        f5 == IF Len(f4) = 0 THEN AU_PoolSet(ds) ELSE f4
        f6 == IF Len(f5) = 0 /\ Len(AU_All(ds)) > 0 THEN AU_FinalSet(ds) ELSE f5
    IN  AU_Scored(p, IF AU_FallbackGuard(f0, ef) THEN f6 ELSE f0)

\* apply_uk_filters_and_score, lines 238-397
UK_Run(p, ds, ef) ==
    LET f0 == SelectSeq(ds, LAMBDA d : UK_HardPass(p, d))
        f1 == IF UK_Step1Guard(p, f0) THEN UK_Step1Set(p, ds) ELSE f0
        f2 == IF UK_Step2Guard(p, f1) THEN UK_Step2Set(p, ds) ELSE f1
        f3 == IF UK_Step3Guard(p, f2) THEN UK_Step3Set(p, ds) ELSE f2
        f4 == IF UK_Step4Guard(p, f3) THEN UK_Step4Set(p, ds) ELSE f3
        f5 == IF UK_Step5Guard(p, f4) THEN UK_Step5Set(p, ds) ELSE f4
        f6 == IF Len(f5) = 0 THEN UK_PoolSet(ds, f5) ELSE f5
        f7 == IF UK_FallbackGuard(f0, ef) THEN f6 ELSE f0
        f8 == IF Len(f7) = 0 /\ Len(UK_All(ds)) > 0 THEN UK_FinalSet(ds) ELSE f7
    IN  UK_Scored(p, f8)

\* apply_sg_filters_and_score, lines 215-391
SG_Run(p, ds, ef) ==
    LET f0 == SelectSeq(ds, LAMBDA d : SG_HardPass(p, d))
        f1 == IF SG_Step1Guard(p, f0) THEN SG_Step1Set(p, ds) ELSE f0
        f2 == IF SG_Step2Guard(p, f1) THEN SG_Step2Set(p, ds) ELSE f1
        f3 == IF SG_Step3Guard(p, f2) THEN SG_Step3Set(p, ds) ELSE f2
        f4 == IF SG_Step4Guard(p, f3) THEN SG_Step4Set(p, ds) ELSE f3
        f5 == IF Len(f4) = 0 THEN SG_Step5Set(p, ds) ELSE f4
        f6 == IF Len(f5) = 0 THEN SG_PoolSet(ds, f5) ELSE f5
        f7 == IF SG_FallbackGuard(f0, ef) THEN f6 ELSE f0
        f8 == IF Len(f7) = 0 /\ Len(SG_All(ds)) > 0 THEN SG_FinalSet(ds) ELSE f7
    IN  SG_Scored(p, f8)

\* the ranked list the engine of the current call returns for the pool ds
Run(ds) ==
    IF engine = "AU" THEN AU_Run(input_data, ds, enable_fallback)
    ELSE IF engine = "UK" THEN UK_Run(input_data, ds, enable_fallback)
    ELSE SG_Run(input_data, ds, enable_fallback)

\* the composed function is what the steps of the state machine compute
RunIsScored == EngineReturned => scored = Run(docs)

IdSeq(rs) == [i \in 1..Len(rs) |-> rs[i].id]

\* the pools that hold the candidates of ds in some order
Reorderings(ds) == {q \in Pools(Range(ds)) : Len(q) = Len(ds)}

\* C11: for a fixed profile, every reordering of the candidate pool yields
\* the same sequence of result ids from the AU, UK and SG engines.
C11_PoolOrderIndependent ==
    EngineReturned => \A q \in Reorderings(docs) : IdSeq(Run(q)) = IdSeq(scored)

-----------------------------------------------------------------------------
(* The terms of each rubric's total, each with the weight the module        *)
(* docstring gives its dimension: <<contribution, Pts(weight)>>             *)

\* au_evaluation.py 406-418 against the docstring, lines 6-18
AU_Dims(p, d) ==
    <<  <<AU_score_rank(RankOf(d), _rank_band_for_academic(p.academic_band),
                        RankWeight(p.reputation_vs_value)), Pts(10)>>,
        <<_score_interests(_normalize_list(p.interests), _normalize_list(d.strengths)), Pts(20)>>,
        <<AU_score_budget(TuitionOf(d), p.budget_usd), Pts(10)>>,
        <<_score_wil(p.wil_preference, d.work_integrated_learning, d.placement_rate,
                     p.career_focus), Pts(10)>>,
        <<_score_go8(p.go8_preference, d.group_of_eight), Pts(8)>>,
        <<_score_city(AU_pref_cities(p), d.city), Pts(6)>>,
        <<_score_psw(p.psw_importance, d.post_study_visa_years), Pts(8)>>,
        <<_score_english(p.english_readiness, d.requires_english_test,
                         p.accept_language_course), Pts(6)>>,
        <<AU_score_intl_community(p.intl_community_importance, d.intlRate), Pts(6)>>,
        <<AU_score_scholarship(p.scholarship_importance, d.scholarship_available), Pts(6)>>,
        <<_score_study_length(p.study_length_preference, d.study_length_years), Pts(5)>>,
        <<_score_intakes(p.intake_preference, d.intakes), Pts(5)>>  >>

\* uk_evaluation.py 366-376 against the docstring, lines 6-16 (region: 5-7)
UK_Dims(p, d) ==
    <<  <<UK_score_rank(RankOf(d), _rank_band(p.academic_band),
                        RankWeight(p.reputation_vs_value)), Pts(10)>>,
        <<_score_interests(_normalize_list(p.interests), _normalize_list(d.strengths)), Pts(20)>>,
        <<UK_score_budget(TuitionOf(d), p.budget_usd), Pts(10)>>,
        <<_score_ucas(p.ucas_route, d.ucas_deadline_type, p.intake_preference), Pts(10)>>,
        <<_score_placement(p.placement_year_pref, d.placement_year_available), Pts(10)>>,
        <<_score_russell(p.russell_pref, d.russell_group), Pts(10)>>,
        <<_score_ps_readiness(p.prep_level, d.personal_statement_weight), Pts(10)>>,
        <<_score_tests(p.prep_level, d.admissions_tests), Pts(5)>>,
        <<_score_region(p.region_pref, d.city), Pts(7)>>,
        <<UK_score_intl_community(p.intl_env_importance, d.intlRate), Pts(5)>>  >>

\* sg_evaluation.py 358-367 against the docstring, lines 6-16
SG_Dims(p, d) ==
    <<  <<SG_score_rank(RankOf(d), _rank_band(p.academic_band),
                        RankWeight(p.reputation_vs_value)), Pts(10)>>,
        <<_score_interests(_normalize_list(p.interests), _normalize_list(d.strengths)), Pts(20)>>,
        <<_score_budget15(TuitionOf(d), p.budget_usd), Pts(15)>>,
        <<_score_orientation(p.orientation, d.industry_links_score,
                             d.coop_or_internship_required), Pts(15)>>,
        <<_score_tg_bond(p.bond_acceptance, d.tuition_grant_available,
                         d.tuition_grant_bond_years), Pts(5)>>,
        <<_score_interview_portfolio(p.interview_portfolio, d.interview_required,
                                     d.essay_or_portfolio_required), Pts(10)>>,
        <<_score_double_degree(p.want_double_degree, _normalize_list(d.tags)), Pts(5)>>,
        <<_score_exchange(p.want_exchange, d.exchange_opportunities_score), Pts(5)>>,
        <<_score_safety(p.safety_importance, d.safety_score), Pts(5)>>,
        <<SG_score_scholarship(p.scholarship_importance, d.scholarship_available), Pts(10)>>  >>

\* the terms of the current call's rubric for the candidate d
Dims(d) ==
    IF engine = "AU" THEN AU_Dims(input_data, d)
    ELSE IF engine = "UK" THEN UK_Dims(input_data, d)
    ELSE SG_Dims(input_data, d)

Total(d) ==
    IF engine = "AU" THEN AU_Total(input_data, d)
    ELSE IF engine = "UK" THEN UK_Total(input_data, d)
    ELSE SG_Total(input_data, d)

RECURSIVE SumFirst(_, _)
SumFirst(dims, n) == IF n = 0 THEN 0 ELSE SumFirst(dims, n - 1) + dims[n][1]

\* the terms are the terms of the total
DimsAreTotal == EngineReturned => \A d \in Range(docs) : SumFirst(Dims(d), Len(Dims(d))) = Total(d)

\* C12: every dimension's contribution, the rank dimension after the
\* reputation-vs-value modulation included, lies between 0 and the nominal
\* weight of the dimension, for every profile and candidate.
C12_DimensionWithinWeight ==
    EngineReturned =>
        \A d \in Range(MarketDocs) : \A k \in 1..Len(Dims(d)) :
            0 <= Dims(d)[k][1] /\ Dims(d)[k][1] <= Dims(d)[k][2]

\* the values career_focus takes in the questionnaire
\* (employment = 就业口碑, internship_tag = 带实习标签, balanced = 均衡)
CareerFocus == {"employment", "internship_tag", "balanced"}

WithCareerFocus(p, cf) == [p EXCEPT !.career_focus = cf]

\* position of the WIL term in AU_Dims
WilDim == 4

\* C13 (as the code behaves): career_focus is a second multiplier, applied to
\* the placement-rate part of the WIL dimension. For a fixed candidate and a
\* profile fixed in every other field, changing career_focus changes no
\* dimension other than WIL, and the WIL contribution stays within [0, 10].
C13_CareerFocusOnlyInsideWil ==
    (EngineReturned /\ engine = "AU") =>
        \A d \in Range(MarketDocs) : \A cf \in CareerFocus :
            LET other == AU_Dims(WithCareerFocus(input_data, cf), d)
                here == AU_Dims(input_data, d)
            IN  /\ \A k \in (1..Len(here)) \ {WilDim} : other[k] = here[k]
                /\ 0 <= other[WilDim][1] /\ other[WilDim][1] <= Pts(10)

\* a returned candidate whose total differs between two values of career_focus
C13_Witness ==
    /\ EngineReturned /\ engine = "AU"
    /\ \E i \in 1..Len(filtered) : \E cf \in CareerFocus :
          AU_Total(WithCareerFocus(input_data, cf), filtered[i]) # AU_Total(input_data, filtered[i])

\* C13 (as stated): two profiles that differ only in career_focus give every
\* candidate the same total score.
C13_CareerFocusNeutral ==
    (EngineReturned /\ engine = "AU") =>
        \A d \in Range(MarketDocs) : \A cf \in CareerFocus :
            AU_Total(WithCareerFocus(input_data, cf), d) = AU_Total(input_data, d)

-----------------------------------------------------------------------------
(* The keys of a match result, each with the kind of expression that        *)
(* computes its value: "identity" (the _id), "total" (the rounded total),   *)
(* "document" (a field of the candidate), "dimension" (one term of total)   *)

\* au_evaluation.py 420-437, uk_evaluation.py 378-393, sg_evaluation.py
\* 369-387; recommend_schools.py 317: the pair (school, score_school(...))
ResultFields(e) ==
    IF e = "AU" THEN
        [id |-> "identity", name |-> "document", score |-> "total", rank |-> "document",
         tuition_usd |-> "document", city |-> "document", strengths |-> "document",
         work_integrated_learning |-> "document", placement_rate |-> "document",
         post_study_visa_years |-> "document", requires_english_test |-> "document",
         english_requirements |-> "document", intlRate |-> "document",
         scholarship_available |-> "document", study_length_years |-> "document",
         intakes |-> "document"]
    ELSE IF e = "UK" THEN
        [id |-> "identity", name |-> "document", score |-> "total", rank |-> "document",
         tuition_usd |-> "document", city |-> "document", strengths |-> "document",
         placement_year_available |-> "document", russell_group |-> "document",
         personal_statement_weight |-> "document", admissions_tests |-> "document",
         ucas_deadline_type |-> "document", foundation_available |-> "document",
         intlRate |-> "document"]
    ELSE IF e = "SG" THEN
        [id |-> "identity", name |-> "document", score |-> "total", rank |-> "document",
         tuition_usd |-> "document", city |-> "document", strengths |-> "document",
         tags |-> "document", tuition_grant_available |-> "document",
         tuition_grant_bond_years |-> "document", interview_required |-> "document",
         essay_or_portfolio_required |-> "document", industry_links_score |-> "document",
         coop_or_internship_required |-> "document",
         exchange_opportunities_score |-> "document", safety_score |-> "document",
         scholarship_available |-> "document"]
    ELSE [school |-> "document", score |-> "total"]

\* a pipeline has returned its scored list
Returned == pc = "done" /\ engine \in Markets \cup {"USA"}

\* the unrounded total of the current rubric for candidate d, as the sum of
\* its terms
SumOfTerms(d) ==
    IF engine = "USA" THEN USA_Total(d, input_data)
    ELSE SumFirst(Dims(d), Len(Dims(d)))

-----------------------------------------------------------------------------
(* The coverage-ratio dimension *)

\* score_school, lines 118-125: the major-match term of the generic rubric
major_match_score(interest_fields, strengths) ==
    LET interests == IF interest_fields = NoList THEN <<>> ELSE interest_fields
        matches == Cardinality({<<i, j>> \in (1..Len(interests)) \X (1..Len(strengths)) :
                       \/ IsSubstring(Lower(interests[i]), Lower(strengths[j]))
                       \/ IsSubstring(Lower(strengths[j]), Lower(interests[i]))})
    IN  IF Len(interests) > 0 /\ Len(strengths) > 0
        THEN Min(Pts(20), (Pts(20) * matches) \div Len(interests))
        ELSE 0

\* the tags a strengths list is extended with
Tags == {"Computer Science", "computer science", " Law ", "law", "software", "finance", " "}

\* the coverage value of the current rubric for a strengths list
Coverage(strengths) ==
    IF engine = "USA" THEN major_match_score(input_data.interest_fields, strengths)
    ELSE _score_interests(_normalize_list(input_data.interests), _normalize_list(strengths))

\* C15: for the profile's interest list, adding a tag to a candidate's
\* strengths never decreases the coverage value (_score_interests in AU, UK
\* and SG, the major-match term of score_school), which never exceeds 20.
C15_CoverageMonotone ==
    Returned =>
        \A d \in Range(docs) : \A t \in Tags :
            /\ Coverage(d.strengths) <= Coverage(Append(d.strengths, t))
            /\ Coverage(Append(d.strengths, t)) <= Pts(20)

\* a candidate some of whose profile's interests are matched, and one more is
\* matched once a tag is added
C15_Witness ==
    /\ Returned
    /\ \E d \in Range(docs) : \E t \in Tags :
          /\ 0 < Coverage(d.strengths)
          /\ Coverage(d.strengths) < Coverage(Append(d.strengths, t))

-----------------------------------------------------------------------------
(* The budget dimension *)

\* the budgets the threshold property is checked on, besides the profile's
MaxBudget == 6

Budgets == {input_data.budget_usd} \cup (0..MaxBudget)

\* the budget term of the current rubric (AU line 409, UK 369, SG 360)
BudgetScore(tuition_usd, budget_usd) ==
    IF engine = "AU" THEN AU_score_budget(tuition_usd, budget_usd)
    ELSE IF engine = "UK" THEN UK_score_budget(tuition_usd, budget_usd)
    ELSE _score_budget15(tuition_usd, budget_usd)

\* the weight of the budget dimension: 10 in AU and UK, 15 in SG
BudgetFull == IF engine = "SG" THEN Pts(15) ELSE Pts(10)

\* C16 (as the code behaves): for every positive budget, a candidate whose
\* tuition equals the budget receives the maximum of the dimension and one
\* whose tuition is one unit above receives strictly less and at least 0;
\* with a budget that is unset or not positive every candidate receives 0.
C16_BudgetThreshold ==
    EngineReturned =>
        \A b \in Budgets :
            IF b > 0
            THEN /\ BudgetScore(b, b) = BudgetFull
                 /\ 0 <= BudgetScore(b + 1, b)
                 /\ BudgetScore(b + 1, b) < BudgetFull
            ELSE BudgetScore(b, b) = 0 /\ BudgetScore(b + 1, b) = 0

\* a returned candidate whose tuition equals the profile's positive budget
C16_Witness ==
    /\ EngineReturned
    /\ input_data.budget_usd > 0
    /\ \E i \in 1..Len(scored) : scored[i].tuition_usd = input_data.budget_usd

\* C16 (as stated): the same for every profile budget.
C16_BudgetThresholdAnyBudget ==
    EngineReturned =>
        \A b \in Budgets :
            /\ BudgetScore(b, b) = BudgetFull
            /\ 0 <= BudgetScore(b + 1, b)
            /\ BudgetScore(b + 1, b) < BudgetFull

-----------------------------------------------------------------------------
(* Properties of the dispatcher and of the generic pipeline *)

ConfiguredMarkets == {"Australia", "United Kingdom", "Singapore", "USA"}

\* a request whose target_country is none of the configured markets
UnknownMarket == country \in Countries \ ConfiguredMarkets

ScoredIds == [i \in 1..Len(scored) |-> scored[i].id]

USAReturned == pc = "done" /\ engine = "USA"

\* the position of a school in the list that entered scoring
PosInFiltered(id) == CHOOSE i \in 1..Len(filtered) : filtered[i].id = id

-----------------------------------------------------------------------------
(* Properties of the explanations in the response *)

\* a market request has been answered with its shortlist
Answered == pc = "responded" /\ engine \in Markets /\ response.status = 200

\* the positions of the relaxation lines in an explanation
RelaxationLines(lines) == {i \in 1..Len(lines) : lines[i].kind = "relaxation"}

\* the explanation carries a relaxation line exactly if the fallback report
\* says applied, and the line names the recorded step labels
Annotated(lines) ==
    IF fallback_info.applied
    THEN \E i \in RelaxationLines(lines) : lines[i].detail = fallback_info.steps
    ELSE RelaxationLines(lines) = {}

\* C17: in every market, whenever the fallback report has applied = true the
\* explanation of each returned candidate contains a relaxation annotation
\* naming the recorded step labels, and none when applied = false.
C17_RelaxationAnnotated ==
    Answered => \A id \in DOMAIN response.explanations : Annotated(response.explanations[id])

\* generating the explanation of the recommended school `id` raises
Raises(id) == engine \in {"UK", "SG"} /\ explanation_raises(SchoolDetail(id), input_data)

\* C18: when explanation generation fails for one candidate (a division by a
\* zero or unset budget for a candidate of positive tuition), the request is
\* still answered with its ranked shortlist, that candidate has an empty
\* explanation list and the other candidates keep theirs.
C18_ExplanationFailureIsolated ==
    (pc = "responded" /\ engine \in Markets) =>
        /\ response.status = 200
        /\ response.recommended_school_ids = RecommendedIds
        /\ \A id \in Range(RecommendedIds) :
              IF Raises(id) THEN response.explanations[id] = <<>>
              ELSE Len(response.explanations[id]) > 0

-----------------------------------------------------------------------------
(* Candidates with missing data *)

\* the profile carries what the generic pipeline requires of it
ProfileComplete == engine = "USA" => input_data.interest_fields # NoList

\* C19: whatever hard-filter and scoring fields of a candidate are absent or
\* null, filtering, fallback and scoring complete without raising in all
\* four pipelines, and every returned candidate has a numeric total score.
C19_GapsNeverFatal ==
    (engine \in Markets \cup {"USA"} /\ ProfileComplete) =>
        /\ pc # "error"
        /\ pc = "done" => \A i \in 1..Len(scored) : scored[i].score >= 0

-----------------------------------------------------------------------------
(* The inputs of a request *)

\* C20: every step of a request after its dispatch (the ladder and the
\* scoring of apply_au/uk/sg_filters_and_score, of the generic pipeline, and
\* the generation of the explanations in the handler) leaves the profile
\* dictionary and the pool (its documents, their order and their number)
\* equal to what they were before the step.
C20_InputsUnchanged ==
    [][pc # "idle" => (input_data' = input_data /\ docs' = docs)]_vars

\* a UK or SG request answered after a relaxation: the engine has filtered,
\* relaxed and sorted, and the generator has been handed the fallback keys
C20_Witness ==
    /\ pc = "responded" /\ engine \in {"UK", "SG"} /\ response.status = 200
    /\ fallback_info.applied
    /\ Len(response.recommended_school_ids) > 0
    /\ Len(docs) > 1

-----------------------------------------------------------------------------
(* The order of the shortlist in the response *)

\* C21: in the response of an AU, UK or SG request, recommendedSchools lists
\* the schools in the order of the engine's ranked list, whatever order the
\* lookup of the details by id returns the documents in.
C21_ShortlistKeepsRanking ==
    (Answered /\ Len(scored) > 0) =>
        IdSeq(response.recommendedSchools) = IdSeq(Take(scored, TopRecommended))

-----------------------------------------------------------------------------
(* Relaxation in the generic pipeline *)

\* the result of the strict query of line 276
StrictSurvivors == USA_Find(input_data, docs, TRUE)

\* the list is ready for line 318
AboutToScore == pc = "usa_score" /\ engine = "USA"

\* C22: in recommend_schools_for_parent the loose mode, the country-only mode
\* and the supplement run only when the strict filter returns no school:
\* when it returns at least one, exactly the strict survivors are scored.
C22_RelaxOnlyWhenStrictEmpty ==
    (AboutToScore /\ Len(StrictSurvivors) > 0) => filtered = StrictSurvivors

-----------------------------------------------------------------------------
(* The academic-tier line of an explanation *)

\* the rank score before the reputation weight (weight 1.0) is the full 10
InTargetBand(d) ==
    LET rank == RankOf(d)
    IN  IF engine = "AU"
        THEN AU_score_rank(rank, _rank_band_for_academic(input_data.academic_band), 10) = Pts(10)
        ELSE IF engine = "UK"
        THEN UK_score_rank(rank, _rank_band(input_data.academic_band), 10) = Pts(10)
        ELSE SG_score_rank(rank, _rank_band(input_data.academic_band), 10) = Pts(10)

\* the first line of a school's explanation says the school matches the tier
SaysMatchesTier(id) ==
    LET lines == response.explanations[id]
    IN  lines[1].kind = "level" /\ lines[1].detail = <<"matches">>

\* C23: the academic-tier line of every explained school says "matches the
\* target tier" exactly when the school's rank lies inside the band that
\* _score_rank uses for the profile's academic_band.
C23_TierLineAgreesWithBand ==
    Answered =>
        \A id \in DOMAIN response.explanations :
            SaysMatchesTier(id) <=> InTargetBand(SchoolDetail(id))

-----------------------------------------------------------------------------
(* The constraint named as the main concern *)

\* the class of hard constraint that main_concern names, when that
\* constraint is switched on in the profile ("none" otherwise)
ConcernClass ==
    IF engine = "UK"
    THEN IF input_data.main_concern = "region" /\ UK_has_region_limit(input_data)
         THEN "region" ELSE "none"
    ELSE IF engine = "SG"
    THEN CASE input_data.main_concern = "over_budget" /\ input_data.hard_budget_must_within
                -> "budget"
           [] input_data.main_concern = "interview"
              /\ input_data.hard_refuse_interview_or_portfolio -> "interview"
           [] input_data.main_concern = "tg_bond" /\ input_data.hard_refuse_bond -> "bond"
           [] OTHER -> "none"
    ELSE "none"

\* the last rung recorded is one of the rungs before the unconditional pool
BeforePoolRung ==
    /\ Len(Steps) > 0
    /\ Steps[Len(Steps)] \notin {"pool", "final"}

\* C24: a hard constraint that the profile names as its main concern is not
\* relaxed by the ladder: every candidate that a rung before the pool rung
\* returns passes that constraint as the initial filter applies it.
C24_MainConcernKept ==
    (engine \in {"UK", "SG"} /\ ConcernClass # "none" /\ BeforePoolRung) =>
        \A i \in 1..Len(filtered) : ClassPass(ConcernClass, filtered[i])

-----------------------------------------------------------------------------
(* The length of the shortlists *)

\* the handler has answered a market request that the engine ranked
MarketAnswered == pc = "responded" /\ engine \in Markets /\ response.status = 200

NoIdTwice(ids) == \A i, j \in 1..Len(ids) : i # j => ids[i] # ids[j]

\* the scores line 318 gives the schools of the list that is scored
ScoreOf(d) == score_school(d, input_data).score

\* ids is a list of min(n, Len(ds)) schools of ds, in descending order of
\* score, none of which scores less than a school of ds that is left out
FirstByScore(ids, ds, n) ==
    /\ Len(ids) = Min(n, Len(ds))
    /\ NoIdTwice(ids)
    /\ \A i \in 1..Len(ids) : ids[i] \in Ids0(ds)
    /\ \A i, j \in 1..Len(ids) : i < j => ScoreOf(DocById(ids[i])) >= ScoreOf(DocById(ids[j]))
    /\ \A i \in 1..Len(ids) : \A k \in 1..Len(ds) :
            ds[k].id \notin Range(ids) => ScoreOf(DocById(ids[i])) >= ScoreOf(ds[k])

\* C25: the handler recommends exactly the first min(5, n) entries of the
\* ranked list of n results an AU, UK or SG engine returns, and
\* recommend_schools_for_parent returns exactly the ids of the first
\* min(10, n) of the n schools it scored, by descending score, no id twice.
C25_TopN ==
    /\ MarketAnswered =>
          /\ Len(response.recommended_school_ids) = Min(5, Len(scored))
          /\ \A i \in 1..Len(response.recommended_school_ids) :
                response.recommended_school_ids[i] = scored[i].id
    /\ USAReturned => FirstByScore(ScoredIds, filtered, 10)

\* both shortlists are cut: a market engine returned more than five results
\* and the handler answered; the generic pipeline scored more than ten
C25_WitnessMarket == MarketAnswered /\ Len(scored) > 5

C25_Witness == USAReturned /\ Len(filtered) > 10 /\ Len(scored) = 10

-----------------------------------------------------------------------------
(* The number of schools that are scored in the generic pipeline *)

\* C26: whenever the universities collection holds at least 10 schools of
\* country "USA", at least 10 schools enter the scoring stage of
\* recommend_schools_for_parent, whatever the strict, the loose and the
\* country-only pass returned.
C26_TenSchoolsScored ==
    (AboutToScore /\ Len(InCountry(docs, "USA")) >= 10) => Len(filtered) >= 10

-----------------------------------------------------------------------------
(* classify_applications: gpt/recommend_schools.py 329-417                  *)
(* The function is applied to every list of up to MaxClassify schools with  *)
(* distinct ids. In this specification `docs` holds the argument            *)
(* recommended_schools and `response` the returned triple; ed_suggestion,   *)
(* None or one school, is a list of no or one school.                       *)

MaxClassify == 6

\* the rank of the i-th school of a list: neither ascending nor descending,
\* with ties (schools 1 and 6, 2 and 7)
ClassifyRank(i) == 10 * ((3 * i) % 5)

ClassifyInputs ==
    UNION {[1..n -> BOOLEAN \X BOOLEAN] : n \in 0..MaxClassify}

ClassifyList(flags) ==
    [i \in 1..Len(flags) |->
        [id |-> LongIds[i], rank |-> ClassifyRank(i),
         supports_ed |-> flags[i][1], supports_ea |-> flags[i][2]]]

\* line 348: sorted(recommended_schools, key=lambda x: x.get("rank", 999))
sorted_schools(rs) == Items(SortPairs([i \in 1..Len(rs) |-> <<(<<rs[i].rank>>), rs[i]>>]))

\* lines 351-355: the first school in rank order that supports ED
ed_pick(ss) == Take(SelectSeq(ss, LAMBDA s : s.supports_ed), 1)

\* lines 371, 396: the school is the ED suggestion (compared by id)
IsEd(ed, s) == Len(ed) = 1 /\ ed[1].id = s.id

\* variant of ea_pick without the test of line 371
ea_pick_KeepsEd(ss, ed) == Take(SelectSeq(ss, LAMBDA s : s.supports_ea), 3)

\* lines 363-378: the first three schools that support EA, the ED one skipped
ea_pick(ss, ed) == Take(SelectSeq(ss, LAMBDA s : ~IsEd(ed, s) /\ s.supports_ea), 3)

\* lines 380-391: with fewer than two, add EA-supporting schools not yet taken
ea_filled(ss, ed, ea) ==
    IF Len(ea) < 2
    THEN ea \o Take(SelectSeq(ss, LAMBDA s : s \notin Range(ea) /\ ~IsEd(ed, s) /\ s.supports_ea),
                    2 - Len(ea))
    ELSE ea

\* lines 393-399: every school that is neither the ED nor an EA suggestion
rd_pick(ss, ed, ea) == SelectSeq(ss, LAMBDA s : ~IsEd(ed, s) /\ s.id \notin Ids0(ea))

\* variant of transfer_count that never moves a school
transfer_count_None(ea, rd) == 0

\* lines 402-403: how many schools ea_suggestions.pop() moves to RD
transfer_count(ea, rd) ==
    IF Len(rd) < 3 /\ Len(ea) > 2 THEN Min(3 - Len(rd), Len(ea) - 2) ELSE 0

classify_applications(rs) ==
    IF Len(rs) = 0
    THEN [edSuggestion |-> <<>>, eaSuggestions |-> <<>>, rdSuggestions |-> <<>>]
    ELSE LET ss == sorted_schools(rs)
             ed == ed_pick(ss)
             ea == ea_filled(ss, ed, ea_pick(ss, ed))
             rd == rd_pick(ss, ed, ea)
             k  == transfer_count(ea, rd)
         IN  [edSuggestion |-> ed,
              eaSuggestions |-> SubSeq(ea, 1, Len(ea) - k),
              rdSuggestions |-> rd \o [j \in 1..k |-> ea[Len(ea) + 1 - j]]]

InitClassify ==
    /\ pc = "classify"
    /\ engine = "none"
    /\ input_data = [none |-> TRUE]
    /\ docs \in {ClassifyList(flags) : flags \in ClassifyInputs}
    /\ enable_fallback = TRUE
    /\ filtered = <<>>
    /\ fallback_info = NoFallback
    /\ scored = <<>>
    /\ country = "USA"
    /\ response = NoResponse

\* evals.py 414: the call and its return
Classify ==
    /\ pc = "classify"
    /\ response' = classify_applications(docs)
    /\ pc' = "classified"
    /\ UNCHANGED <<engine, input_data, docs, enable_fallback, filtered, fallback_info,
                   scored, country>>

NextClassify == Classify

SpecClassify == InitClassify /\ [][NextClassify]_vars

-----------------------------------------------------------------------------
(* Properties of classify_applications *)

Classified == pc = "classified"

Ed == response.edSuggestion

Ea == response.eaSuggestions

Rd == response.rdSuggestions

\* the schools of the argument other than the ED suggestion
BesidesEd == SelectSeq(docs, LAMBDA s : ~IsEd(Ed, s))

EaCapable == SelectSeq(BesidesEd, LAMBDA s : s.supports_ea)

\* a school has been moved from the EA list to the RD list
Transferred == \E i \in 1..Len(Rd) : Rd[i].supports_ea /\ Len(EaCapable) > Len(Ea)

Occurrences(id, ss) == Cardinality({i \in 1..Len(ss) : ss[i].id = id})

\* C30: classify_applications partitions a list with distinct ids: every
\* school of the list is in exactly one of the ED suggestion, the EA list
\* and the RD list, once, and these hold no other school; the ED suggestion
\* supports ED, every EA school supports EA, and the EA list holds at most 3.
C30_ClassifyPartitions ==
    Classified =>
        /\ \A s \in Range(docs) :
              Occurrences(s.id, Ed) + Occurrences(s.id, Ea) + Occurrences(s.id, Rd) = 1
        /\ Range(Ed) \cup Range(Ea) \cup Range(Rd) \subseteq Range(docs)
        /\ \A i \in 1..Len(Ed) : Ed[i].supports_ed
        /\ \A i \in 1..Len(Ea) : Ea[i].supports_ea
        /\ Len(Ea) <= 3

\* a list with an ED suggestion that also supports EA, a full EA list and a
\* school moved from EA to RD
C30_Witness ==
    /\ Classified /\ Len(Ed) = 1 /\ Ed[1].supports_ea
    /\ Transferred /\ Len(Ea) = 2 /\ Len(Rd) >= 2

-----------------------------------------------------------------------------
(* The fallback report *)

\* C28: the report an engine returns has applied = true exactly when its
\* list of steps is not empty, for either value of enable_fallback.
C28_AppliedIffSteps ==
    EngineReturned => (fallback_info.applied <=> Len(fallback_info.steps) > 0)

-----------------------------------------------------------------------------
(* The market of the recommended schools *)

\* C29: every candidate a pipeline returns, after any fallback rung, pool or
\* supplement, is a school of the profile's target_country.
C29_TargetMarketOnly ==
    Returned => \A i \in 1..Len(scored) : DocById(scored[i].id).country = country

====
